---- MODULE Spec2Model ----
(***************************************************************************)
(* HUB caching proxy (greeddj/hub).                                        *)
(*                                                                         *)
(* Two state machines share this module.                                   *)
(*                                                                         *)
(*   Spec       the conditional endpoints (Cargo sparse index, npm         *)
(*              packument): NumProcs concurrent handler invocations for    *)
(*              one resource, each running the handler and                 *)
(*              misc.DownloadFileConditional statement group by statement  *)
(*              group against one shared directory.                        *)
(*   SpecPlain  the endpoints built on misc.DownloadFile (Cargo crates,    *)
(*              npm tarball/search, RubyGems, Go proxy) and the Cargo API  *)
(*              pass-through: one request after another, with a clock.     *)
(***************************************************************************)
EXTENDS Integers, Sequences, FiniteSets, TLC

(***************************************************************************)
(* Bounds of the model.                                                    *)
(***************************************************************************)
\* concurrent handler invocations on the conditional endpoint
NumProcs == 2
\* requests started in one behaviour of Spec
MaxReqs == 2
\* versions the upstream resource goes through
MaxVer == 2
\* chunks io.Copy moves per response body
BodyLen == 2
\* values the nanosecond clock takes while fetches are in flight
MaxNanos == 1
\* size of the range rand.Int draws from (1000 in the code, scaled down)
RandLimit == 2

Procs == 1..NumProcs
Versions == 1..MaxVer
Nanos == 0..MaxNanos
Rands == 0..(RandLimit - 1)

\* a body of version v: BodyLen chunks, all stamped v
Body(v) == [i \in 1..BodyLen |-> v]
CompleteBodies == {Body(v) : v \in Versions}

(***************************************************************************)
(* The directory holding one conditional cache entry.                      *)
(* Paths name inodes; an open descriptor keeps writing to its inode after  *)
(* the path was renamed or removed, as on a POSIX file system.             *)
(***************************************************************************)
NoIno == 0
Inos == 1..(NumProcs + 1)
TempNames == Nanos \X Rands
NoTmp == <<-1, -1>>
NoMeta == [present |-> FALSE, etag |-> 0, lm |-> 0, mtime |-> 0]
EmptyFile == [data |-> <<>>, mtime |-> <<"t", 0>>]

VARIABLES
    nanos,      \* time.Now().UnixNano()
    upVer,      \* the version the upstream currently serves
    dest,       \* inode at the final cache path, NoIno when absent
    meta,       \* the <dest>.meta.json sidecar
    tmp,        \* inode at each .tmp.<base>.<nanos>.<rand> path
    inodes,     \* contents and mtime of every inode
    proc,       \* per handler invocation: position and locals
    reqs,       \* requests started so far
    endpoint    \* which conditional endpoint the resource belongs to

condVars == <<nanos, upVer, dest, meta, tmp, inodes, proc, reqs, endpoint>>

VARIABLES
    clock,      \* wall clock of the sequential machine, in minutes
    pEp,        \* the endpoint the requests of SpecPlain go to
    pFile,      \* the cache entry of that endpoint's resource
    pUpVer,     \* the version its upstream currently serves
    pReqs,      \* requests answered so far
    pResp       \* the last response

plainVars == <<clock, pEp, pFile, pUpVer, pReqs, pResp>>

VARIABLES
    call,       \* the request handed to a handler that keeps no state between steps
    result      \* what that handler answered and did

pureVars == <<call, result>>

VARIABLES
    cfgFile,    \* <dir>/cargo/<key>/index/config.json
    cfgProc,    \* per config.json request: position and locals
    cfgReqs,    \* config.json requests arrived so far
    cfgFirst    \* the response to the first of them

genVars == <<cfgFile, cfgProc, cfgReqs, cfgFirst>>

vars == <<condVars, plainVars, pureVars, genVars>>

\* what the steps of each machine leave alone
notCond == <<plainVars, pureVars, genVars>>
notPlain == <<condVars, pureVars, genVars>>
notPure == <<condVars, plainVars, genVars>>
notGen == <<condVars, plainVars, pureVars>>

NoCall == [op |-> "none"]
NoResult == [status |-> 0]
\* no such request under way
PureIdle == call = NoCall /\ result = NoResult

NoCfgFile == [present |-> FALSE, data |-> <<>>]
CfgIdleProc ==
    [pc |-> "idle", n |-> 0, scheme |-> "", host |-> "", after |-> FALSE,
     xcs |-> <<>>, status |-> 0, body |-> <<>>]
NoCfgFirst == [done |-> FALSE, xcs |-> <<>>, status |-> 0, body |-> <<>>]
\* no config.json on disk, no request for it yet
GenIdle ==
    /\ cfgFile = NoCfgFile
    /\ cfgProc = [p \in Procs |-> CfgIdleProc]
    /\ cfgReqs = 0
    /\ cfgFirst = NoCfgFirst

CondEndpoints == {"cargo_index", "npm_packument"}

NoBody == [kind |-> "none", data |-> <<>>]
IdleProc ==
    [pc |-> "idle", cacheExists |-> FALSE,
     hdr |-> [inm |-> 0, ims |-> 0], mETag |-> 0, mLM |-> 0,
     code |-> 0, err |-> FALSE, notMod |-> FALSE, rver |-> 0, nE |-> 0, nL |-> 0,
     name |-> NoTmp, fd |-> NoIno, off |-> 0,
     wrote |-> FALSE,    \* this fetch changed the bytes at the final path in place
     xcs |-> <<>>, status |-> 0, body |-> NoBody]

\* inodes some path or some open descriptor still refers to
Live(d, t, pr) ==
    ({d} \cup {t[n] : n \in TempNames} \cup {pr[p].fd : p \in Procs}) \ {NoIno}

\* an inode nothing refers to is gone
Collect(ino, d, t, pr) ==
    [i \in Inos |-> IF i \in Live(d, t, pr) THEN ino[i] ELSE EmptyFile]

FreeIno == CHOOSE i \in Inos : i \notin Live(dest, tmp, proc)

\* write(2) of one chunk at offset off; a gap left by a truncation reads as 0
WriteAt(data, off, chunk) ==
    [i \in 1..(IF Len(data) > off THEN Len(data) ELSE off + 1) |->
        IF i = off + 1 THEN chunk
        ELSE IF i <= Len(data) THEN data[i] ELSE 0]

(***************************************************************************)
(* Handler prologue: cargoFileExists / fileExists, then the sidecar read.  *)
(***************************************************************************)
\* faulty variant: the sidecar is read whether or not the entry exists
ReadValidatorsAlways(exists, m) ==
    IF m.present THEN [etag |-> m.etag, lm |-> m.lm] ELSE [etag |-> 0, lm |-> 0]

\* readCargoCacheMeta / readNpmCacheMeta, called only when the entry exists;
\* a read error leaves the zero value
ReadValidators(exists, m) ==
    IF exists /\ m.present THEN [etag |-> m.etag, lm |-> m.lm]
    ELSE [etag |-> 0, lm |-> 0]

\* the conditional headers DownloadFileConditional puts on the GET
CondHeaders(etag, lm) ==
    [inm |-> IF etag # 0 THEN etag ELSE 0, ims |-> IF lm # 0 THEN lm ELSE 0]

StartRequestUpTo(p, cap) ==
    /\ proc[p].pc \in {"idle", "done"}
    /\ reqs < cap
    \* handler invocations are interchangeable: they are taken in order
    /\ (IF p = 1 THEN TRUE ELSE proc[p - 1].pc # "idle")
    /\ LET exists == dest # NoIno
           v == ReadValidators(exists, meta)
       IN /\ proc' = [proc EXCEPT ![p] =
                  [IdleProc EXCEPT !.pc = "fetch", !.cacheExists = exists,
                                   !.mETag = v.etag, !.mLM = v.lm]]
    /\ reqs' = reqs + 1
    /\ UNCHANGED <<nanos, upVer, dest, meta, tmp, inodes, endpoint, notCond>>

StartRequest(p) == StartRequestUpTo(p, MaxReqs)

(***************************************************************************)
(* The upstream: an origin server that honours conditional requests, may   *)
(* omit either validator on any response, may answer any error status and  *)
(* may be unreachable.                                                     *)
(***************************************************************************)
ErrStatuses == {404, 206}

UpstreamNotModified(h) ==
    IF h.inm # 0 THEN h.inm = upVer ELSE h.ims # 0 /\ upVer <= h.ims

\* DownloadFileConditional up to the status checks
Fetch(p) ==
    /\ proc[p].pc = "fetch"
    /\ LET h == CondHeaders(proc[p].mETag, proc[p].mLM)
           sent == [proc[p] EXCEPT !.hdr = h]
       IN \/ \* client.Do fails
             proc' = [proc EXCEPT ![p] =
                 [sent EXCEPT !.pc = "handle", !.code = 502, !.err = TRUE]]
          \/ \* any other status, here with both validators on the response
             \E s \in ErrStatuses :
                proc' = [proc EXCEPT ![p] =
                    [sent EXCEPT !.pc = "handle", !.code = s, !.err = TRUE,
                                 !.nE = upVer, !.nL = upVer]]
          \/ \E he \in BOOLEAN, hl \in BOOLEAN :
                IF UpstreamNotModified(h)
                THEN proc' = [proc EXCEPT ![p] =
                    [sent EXCEPT !.pc = "handle", !.code = 304, !.notMod = TRUE,
                                 !.nE = IF he THEN upVer ELSE 0,
                                 !.nL = IF hl THEN upVer ELSE 0]]
                ELSE proc' = [proc EXCEPT ![p] =
                    [sent EXCEPT !.pc = "create", !.rver = upVer,
                                 !.nE = IF he THEN upVer ELSE 0,
                                 !.nL = IF hl THEN upVer ELSE 0]]
    /\ UNCHANGED <<nanos, upVer, dest, meta, tmp, inodes, reqs, endpoint, notCond>>

\* the temporary file's name: basename, nanosecond clock, random integer
TempName(t, n) == <<t, n>>

\* MkdirAll, rand.Int, the name, os.Create (O_CREATE|O_TRUNC), defer os.Remove
CreateTemp(p) ==
    /\ proc[p].pc = "create"
    /\ \/ \* MkdirAll fails
          /\ proc' = [proc EXCEPT ![p].pc = "handle", ![p].code = 409, ![p].err = TRUE]
          /\ UNCHANGED <<tmp, inodes>>
       \/ \* rand.Int or os.Create fails
          /\ proc' = [proc EXCEPT ![p].pc = "handle", ![p].code = 500, ![p].err = TRUE]
          /\ UNCHANGED <<tmp, inodes>>
       \/ \E n \in Rands :
            LET nm == TempName(nanos, n)
                ino == IF tmp[nm] # NoIno THEN tmp[nm] ELSE FreeIno
            IN /\ tmp' = [tmp EXCEPT ![nm] = ino]
               /\ inodes' = [inodes EXCEPT ![ino] = [data |-> <<>>, mtime |-> <<"t", nanos>>]]
               /\ proc' = [proc EXCEPT ![p].pc = "copy", ![p].name = nm,
                                        ![p].fd = ino, ![p].off = 0]
    /\ UNCHANGED <<nanos, upVer, dest, meta, reqs, endpoint, notCond>>

\* io.Copy(tempFile, response.Body), one chunk per step
Copy(p) ==
    /\ proc[p].pc = "copy"
    /\ \/ \* the body stream breaks
          /\ proc' = [proc EXCEPT ![p].pc = "defer", ![p].code = 400, ![p].err = TRUE]
          /\ UNCHANGED inodes
       \/ LET f == proc[p].fd
              off == proc[p].off
          IN /\ inodes' = [inodes EXCEPT ![f] =
                    [data |-> WriteAt(inodes[f].data, off, Body(proc[p].rver)[off + 1]),
                     mtime |-> <<"t", nanos>>]]
             /\ proc' = [proc EXCEPT ![p].off = off + 1,
                                      ![p].wrote = \/ proc[p].wrote
                                                   \/ f = dest /\ inodes'[f].data # inodes[f].data,
                                      ![p].pc = IF off + 1 = BodyLen THEN "finish" ELSE "copy"]
    /\ UNCHANGED <<nanos, upVer, dest, meta, tmp, reqs, endpoint, notCond>>

\* tempFile.Stat, os.Chtimes(tempFilePath, ..., Last-Modified), tempFile.Close
Finish(p) ==
    /\ proc[p].pc = "finish"
    /\ LET nm == proc[p].name
       IN IF proc[p].nL = 0
          THEN /\ proc' = [proc EXCEPT ![p].pc = "rename"]
               /\ UNCHANGED inodes
          ELSE IF tmp[nm] = NoIno
          THEN \* Chtimes on a path that is gone
               /\ proc' = [proc EXCEPT ![p].pc = "defer", ![p].code = 500, ![p].err = TRUE]
               /\ UNCHANGED inodes
          ELSE /\ inodes' = [inodes EXCEPT ![tmp[nm]].mtime = <<"lm", proc[p].nL>>]
               /\ proc' = [proc EXCEPT ![p].pc = "rename"]
    /\ UNCHANGED <<nanos, upVer, dest, meta, tmp, reqs, endpoint, notCond>>

\* os.Rename(tempFile.Name(), destination)
Rename(p) ==
    /\ proc[p].pc = "rename"
    /\ LET nm == proc[p].name
       IN IF tmp[nm] = NoIno
          THEN /\ proc' = [proc EXCEPT ![p].pc = "defer", ![p].code = 500, ![p].err = TRUE]
               /\ UNCHANGED <<dest, tmp, inodes>>
          ELSE /\ dest' = tmp[nm]
               /\ tmp' = [tmp EXCEPT ![nm] = NoIno]
               /\ proc' = [proc EXCEPT ![p].pc = "defer", ![p].code = 200]
               /\ inodes' = Collect(inodes, dest', tmp', proc')
    /\ UNCHANGED <<nanos, upVer, meta, reqs, endpoint, notCond>>

\* faulty variant: a fetch that failed removes the destination as well
DeferRemovesDestination(p) ==
    /\ proc[p].pc = "defer"
    /\ tmp' = [tmp EXCEPT ![proc[p].name] = NoIno]
    /\ dest' = IF proc[p].err THEN NoIno ELSE dest
    /\ proc' = [proc EXCEPT ![p].pc = "handle", ![p].fd = NoIno]
    /\ inodes' = Collect(inodes, dest', tmp', proc')
    /\ UNCHANGED <<nanos, upVer, meta, reqs, endpoint, notCond>>

\* the deferred os.Remove(tempFile.Name()), run as the fetcher returns
Defer(p) ==
    /\ proc[p].pc = "defer"
    /\ tmp' = [tmp EXCEPT ![proc[p].name] = NoIno]
    /\ proc' = [proc EXCEPT ![p].pc = "handle", ![p].fd = NoIno]
    /\ inodes' = Collect(inodes, dest, tmp', proc')
    /\ UNCHANGED <<nanos, upVer, dest, meta, reqs, endpoint, notCond>>

(***************************************************************************)
(* Back in the handler (CargoIndex, handleNpmMetadata).                    *)
(***************************************************************************)
\* what is left of an invocation once it has responded
Responded(r, status, body) ==
    [IdleProc EXCEPT !.pc = "done", !.cacheExists = r.cacheExists, !.code = r.code,
                     !.err = r.err, !.notMod = r.notMod, !.rver = r.rver,
                     !.xcs = r.xcs, !.status = status, !.body = body]

\* faulty variant: a failed fetch with a cached copy is labelled HIT
CondLabelHitOnError(err, cacheExists, notModified) ==
    IF err THEN (IF cacheExists THEN "HIT" ELSE "ERROR")
    ELSE IF notModified THEN "HIT" ELSE "MISS"

\* the X-Cache-Status the handler adds, from the fetch result
CondLabel(err, cacheExists, notModified) ==
    IF err THEN (IF cacheExists THEN "STALE" ELSE "ERROR")
    ELSE IF notModified THEN "HIT" ELSE "MISS"

\* faulty variant: the sidecar is written after every successful fetch
MetaWriteAlways(nE, nL) == TRUE

\* if newETag != "" || newLastModified != ""
MetaWriteNeeded(nE, nL) == nE # 0 \/ nL # 0

\* meta.ETag / meta.LastModified overwritten by the non-empty new validators
MergeValidators(old, nE, nL) ==
    [etag |-> IF nE # 0 THEN nE ELSE old.etag, lm |-> IF nL # 0 THEN nL ELSE old.lm]

HandleResult(p) ==
    /\ proc[p].pc = "handle"
    /\ LET r == proc[p]
           label == CondLabel(r.err, r.cacheExists, r.notMod)
       IN IF r.err /\ ~r.cacheExists
          THEN \* c.String(status, "Please check logs...")
               /\ proc' = [proc EXCEPT ![p] =
                      Responded([r EXCEPT !.xcs = <<label>>], r.code,
                                [kind |-> "check_logs", data |-> <<>>])]
               /\ UNCHANGED meta
          ELSE IF r.err \/ ~MetaWriteNeeded(r.nE, r.nL)
          THEN /\ proc' = [proc EXCEPT ![p].pc = "serve", ![p].xcs = <<label>>]
               /\ UNCHANGED meta
          ELSE LET m == MergeValidators([etag |-> r.mETag, lm |-> r.mLM], r.nE, r.nL)
               IN /\ proc' = [proc EXCEPT ![p].pc = "serve", ![p].xcs = <<label>>,
                                           ![p].mETag = m.etag, ![p].mLM = m.lm]
                  /\ \/ meta' = [present |-> TRUE, etag |-> m.etag, lm |-> m.lm,
                                  mtime |-> nanos]
                     \/ \* writeCargoCacheMeta fails: logged, ignored
                        UNCHANGED meta
    /\ UNCHANGED <<nanos, upVer, dest, tmp, inodes, reqs, endpoint, notCond>>

\* json.Unmarshal of the cached packument: a torn or cut document does not parse
ValidJSON(data) == data \in CompleteBodies

\* c.File(dest) for Cargo; ReadFile, Unmarshal, rewrite, Marshal, c.Blob for npm
ServeBody(ep, d, ino) ==
    IF ep = "cargo_index"
    THEN IF d = NoIno
         THEN [status |-> 404, body |-> [kind |-> "not_found", data |-> <<>>]]
         ELSE [status |-> 200, body |-> [kind |-> "file", data |-> ino[d].data]]
    ELSE IF d = NoIno \/ ~ValidJSON(ino[d].data)
         THEN [status |-> 400, body |-> [kind |-> "metadata_error", data |-> <<>>]]
         ELSE [status |-> 200, body |-> [kind |-> "rewritten", data |-> ino[d].data]]

Serve(p) ==
    /\ proc[p].pc = "serve"
    /\ LET out == ServeBody(endpoint, dest, inodes)
       IN proc' = [proc EXCEPT ![p] = Responded(proc[p], out.status, out.body)]
    /\ UNCHANGED <<nanos, upVer, dest, meta, tmp, inodes, reqs, endpoint, notCond>>

\* the upstream publishes a new version of the resource
UpstreamChange ==
    /\ upVer < MaxVer
    /\ upVer' = upVer + 1
    /\ UNCHANGED <<nanos, dest, meta, tmp, inodes, proc, reqs, endpoint, notCond>>

\* the nanosecond clock advances
Tick ==
    /\ nanos < MaxNanos
    /\ nanos' = nanos + 1
    /\ UNCHANGED <<upVer, dest, meta, tmp, inodes, proc, reqs, endpoint, notCond>>

\* the sequential machine at rest
NoPFile == [present |-> FALSE, body |-> 0, mtime |-> 0, at |-> 0]
NoPResp ==
    [status |-> 0, xcs |-> <<>>, body |-> [kind |-> "none", ver |-> 0], calls |-> 0,
     fetch |-> "none", check |-> "none"]
PlainIdle ==
    /\ clock = 0
    /\ pEp = "none"
    /\ pFile = NoPFile
    /\ pUpVer = 1
    /\ pReqs = 0
    /\ pResp = NoPResp

\* an empty cache directory
InitCond ==
    /\ nanos = 0
    /\ upVer = 1
    /\ dest = NoIno
    /\ meta = NoMeta
    /\ tmp = [n \in TempNames |-> NoIno]
    /\ inodes = [i \in Inos |-> EmptyFile]
    /\ proc = [p \in Procs |-> IdleProc]
    /\ reqs = 0
    /\ endpoint \in CondEndpoints

Init == InitCond /\ PlainIdle /\ PureIdle /\ GenIdle

Next ==
    \/ \E p \in Procs : StartRequest(p)
    \/ \E p \in Procs : Fetch(p)
    \/ \E p \in Procs : CreateTemp(p)
    \/ \E p \in Procs : Copy(p)
    \/ \E p \in Procs : Finish(p)
    \/ \E p \in Procs : Rename(p)
    \/ \E p \in Procs : Defer(p)
    \/ \E p \in Procs : HandleResult(p)
    \/ \E p \in Procs : Serve(p)
    \/ UpstreamChange
    \/ Tick

Spec == Init /\ [][Next]_vars

\* a sidecar whose entry is absent: an index request for <entry>.meta.json is
\* cached at the very path of the entry's sidecar (dest + ".meta.json")
OrphanMeta == [present |-> TRUE, etag |-> 1, lm |-> 1, mtime |-> 0]

InitOrphan ==
    /\ nanos = 0
    /\ upVer = 1
    /\ dest = NoIno
    /\ meta = OrphanMeta
    /\ tmp = [n \in TempNames |-> NoIno]
    /\ inodes = [i \in Inos |-> EmptyFile]
    /\ proc = [p \in Procs |-> IdleProc]
    /\ reqs = 0
    /\ endpoint = "cargo_index"
    /\ PlainIdle
    /\ PureIdle
    /\ GenIdle

SpecOrphan == InitOrphan /\ [][Next]_vars

\* requests started in one behaviour of SpecRace
MaxRaceReqs == 3

\* the Cargo index entry, empty cache
InitRace == Init /\ endpoint = "cargo_index"

\* no step ends in a failed fetch and no sidecar write fails
NoFault == \A p \in Procs : ~proc[p].err

\* no two fetches in flight hold the same temporary file name
OwnTemp ==
    \A p, q \in Procs :
        (p # q /\ proc[p].name # NoTmp /\ proc[q].name # NoTmp)
            => proc[p].name # proc[q].name

\* the runs of the conditional endpoint in which nothing fails: upstream
\* answers 200 or 304, the file system obeys, the sidecar is written, and
\* the temporary file names of concurrent fetches do not clash (they differ
\* in the random part; the nanosecond clock need not move)
NextRace ==
    /\ \/ \E p \in Procs : StartRequestUpTo(p, MaxRaceReqs)
       \/ \E p \in Procs : Fetch(p)
       \/ \E p \in Procs : CreateTemp(p)
       \/ \E p \in Procs : Copy(p)
       \/ \E p \in Procs : Finish(p)
       \/ \E p \in Procs : Rename(p)
       \/ \E p \in Procs : Defer(p)
       \/ \E p \in Procs : HandleResult(p)
       \/ \E p \in Procs : Serve(p)
       \/ UpstreamChange
    /\ NoFault'
    /\ OwnTemp'

SpecRace == InitRace /\ [][NextRace]_vars

(***************************************************************************)
(* The sequential machine: endpoints built on the Plain Fetcher            *)
(* (misc.DownloadFile) and the Cargo API pass-through.  One request is     *)
(* answered at a time; the clock and the upstream move between requests.   *)
(***************************************************************************)
\* bounds of the sequential machine
MaxPlainReqs == 3
\* minutes the clock advances per step, and where it stops
TickStep == 5
MaxClock == 70
\* minutes by which an upstream Last-Modified lies in the past
StaleLM == 120

\* const npmSearchTTL = 10 * time.Minute
NpmSearchTTL == 10
\* time.Now().Add(-1 * time.Hour)
GoLatestTTL == 60

PlainEndpoints ==
    {"cargo_crate", "npm_tarball", "npm_search", "rubygems_gem", "rubygems_other",
     "go_list", "go_info", "go_mod", "go_zip", "go_latest", "cargo_api"}

NoLM == [has |-> FALSE, t |-> 0]

\* what one upstream GET can come to: a 200 with or without Last-Modified,
\* or a failure (502: no response at all; 404: some other status)
FetchOutcomes(now) ==
    {[kind |-> "ok", status |-> 200, lm |-> l] :
        l \in {NoLM, [has |-> TRUE, t |-> now], [has |-> TRUE, t |-> now - StaleLM]}}
    \cup {[kind |-> "fail", status |-> st, lm |-> NoLM] : st \in {502, 404}}

\* the Plain Fetcher: the write discipline of the Conditional Fetcher without
\* validators: body to a temp file, mtime from Last-Modified, rename
DownloadFile(f, o, now) ==
    IF o.kind = "ok"
    THEN [file |-> [present |-> TRUE, body |-> pUpVer,
                    mtime |-> IF o.lm.has THEN o.lm.t ELSE now, at |-> now],
          code |-> 200, err |-> FALSE]
    ELSE [file |-> f, code |-> o.status, err |-> TRUE]

\* c.File(dest)
SendFile(f) ==
    IF f.present THEN [status |-> 200, body |-> [kind |-> "file", ver |-> f.body]]
    ELSE [status |-> 404, body |-> [kind |-> "not_found", ver |-> 0]]

\* a response: the file left on disk, X-Cache-Status values, status, body,
\* upstream requests issued, how the download went ("none": not tried) and
\* what the equality check of RubyGems said ("none": not made)
Answer(f, xcs, status, body, calls, fetch) ==
    [file |-> f, xcs |-> xcs, status |-> status, body |-> body, calls |-> calls,
     fetch |-> fetch, check |-> "none"]

AnswerFile(f, xcs, calls, fetch) ==
    Answer(f, xcs, SendFile(f).status, SendFile(f).body, calls, fetch)

Went(d) == IF d.err THEN "failed" ELSE "ok"

TextBody(kind) == [kind |-> kind, ver |-> 0]

\* Go proxy: DownloadFile, then 410 text / HIT / MISS
downloadAndCacheFile(f, o, now) ==
    LET d == DownloadFile(f, o, now)
    IN IF d.err
       THEN IF ~d.file.present
            THEN Answer(d.file, <<>>, d.code, TextBody("gone"), 1, Went(d))
            ELSE AnswerFile(d.file, <<"HIT">>, 1, Went(d))
       ELSE AnswerFile(d.file, <<"MISS">>, 1, Went(d))

GoProxyList(f, o, now) ==
    LET d == DownloadFile(f, o, now)
    IN IF d.err
       THEN IF ~d.file.present
            THEN Answer(d.file, <<>>, d.code, TextBody("gone"), 1, Went(d))
            ELSE AnswerFile(d.file, <<"HIT">>, 1, Went(d))
       ELSE AnswerFile(d.file, <<"MISS">>, 1, Went(d))

\* valid: the wildcard splits in two around "/@v/"
GoProxyInfo(f, o, now, valid) ==
    IF ~valid THEN Answer(f, <<>>, 400, TextBody("invalid_path"), 0, "none")
    ELSE downloadAndCacheFile(f, o, now)

GoProxyMod(f, o, now, valid) ==
    IF ~valid THEN Answer(f, <<>>, 400, TextBody("invalid_path"), 0, "none")
    ELSE downloadAndCacheFile(f, o, now)

\* faulty variant: the zip handler without its os.Stat short cut
GoProxyZipAlwaysFetch(f, o, now, valid) ==
    IF ~valid THEN Answer(f, <<>>, 400, TextBody("invalid_path"), 0, "none")
    ELSE downloadAndCacheFile(f, o, now)

GoProxyZip(f, o, now, valid) ==
    IF ~valid THEN Answer(f, <<>>, 400, TextBody("invalid_path"), 0, "none")
    ELSE IF f.present THEN AnswerFile(f, <<"HIT">>, 0, "none")
    ELSE LET d == DownloadFile(f, o, now)
         IN IF d.err
            THEN IF ~d.file.present
                 THEN Answer(d.file, <<>>, d.code, TextBody("gone"), 1, Went(d))
                 ELSE AnswerFile(d.file, <<>>, 1, Went(d))
            ELSE AnswerFile(d.file, <<"MISS">>, 1, Went(d))

\* fileInfo.ModTime().After(time.Now().Add(-1 * time.Hour))
LatestCacheValid(f, now) == f.present /\ f.mtime > now - GoLatestTTL

GoProxyLatest(f, o, now) ==
    IF LatestCacheValid(f, now) THEN AnswerFile(f, <<"HIT">>, 0, "none")
    ELSE LET d == DownloadFile(f, o, now)
         IN IF d.err
            THEN IF ~d.file.present
                 THEN Answer(d.file, <<>>, d.code, TextBody("gone"), 1, Went(d))
                 ELSE AnswerFile(d.file, <<"HIT">>, 1, Went(d))
            ELSE AnswerFile(d.file, <<"MISS">>, 1, Went(d))

CargoCrateDownload(f, o, now) ==
    IF f.present THEN AnswerFile(f, <<"HIT">>, 0, "none")
    ELSE LET d == DownloadFile(f, o, now)
         IN IF d.err
            THEN IF ~d.file.present
                 THEN Answer(d.file, <<"ERROR">>, d.code, TextBody("check_logs"), 1, Went(d))
                 ELSE AnswerFile(d.file, <<"STALE">>, 1, Went(d))
            ELSE AnswerFile(d.file, <<"MISS">>, 1, Went(d))

handleNpmTarball(f, o, now) ==
    IF f.present THEN AnswerFile(f, <<"HIT">>, 0, "none")
    ELSE LET d == DownloadFile(f, o, now)
         IN IF d.err
            THEN IF ~d.file.present
                 THEN Answer(d.file, <<"ERROR">>, d.code, TextBody("check_logs"), 1, Went(d))
                 ELSE AnswerFile(d.file, <<"STALE">>, 1, Went(d))
            ELSE AnswerFile(d.file, <<"MISS">>, 1, Went(d))

\* err == nil && time.Since(info.ModTime()) < npmSearchTTL
SearchCacheValid(f, now) == f.present /\ now - f.mtime < NpmSearchTTL

\* os.Chtimes(dest, time.Now(), time.Now()) on the file just published
Touch(f, now) == [f EXCEPT !.mtime = now]

\* faulty variant: the search handler without the os.Chtimes after the download
handleNpmSearchNoTouch(f, o, now) ==
    IF SearchCacheValid(f, now) THEN AnswerFile(f, <<"HIT">>, 0, "none")
    ELSE LET d == DownloadFile(f, o, now)
         IN IF d.err
            THEN IF ~d.file.present
                 THEN Answer(d.file, <<"ERROR">>, d.code, TextBody("check_logs"), 1, Went(d))
                 ELSE AnswerFile(d.file, <<"STALE">>, 1, Went(d))
            ELSE AnswerFile(d.file, <<"MISS">>, 1, Went(d))

handleNpmSearch(f, o, now) ==
    IF SearchCacheValid(f, now) THEN AnswerFile(f, <<"HIT">>, 0, "none")
    ELSE LET d == DownloadFile(f, o, now)
         IN IF d.err
            THEN IF ~d.file.present
                 THEN Answer(d.file, <<"ERROR">>, d.code, TextBody("check_logs"), 1, Went(d))
                 ELSE AnswerFile(d.file, <<"STALE">>, 1, Went(d))
            ELSE AnswerFile(Touch(d.file, now), <<"MISS">>, 1, Went(d))

\* misc.FilesEqual(url, dest): the cached bytes against the live upstream
FilesEqual(f, feErr) == [equal |-> ~feErr /\ f.body = pUpVer, err |-> feErr]

\* isGem: the path is under gems/ and ends in .gem
\* what the handler learnt from FilesEqual
Checked(f, isGem, feErr) ==
    IF ~f.present \/ isGem THEN "none"
    ELSE IF FilesEqual(f, feErr).err THEN "error"
    ELSE IF FilesEqual(f, feErr).equal THEN "equal"
    ELSE "differ"

\* faulty variant: an equality check that failed counts as equal
RubyGemsHitOnCheckError(f, o, now, isGem, feErr) ==
    LET a == IF f.present /\ isGem THEN AnswerFile(f, <<"HIT">>, 0, "none")
             ELSE IF f.present /\ (feErr \/ FilesEqual(f, feErr).equal)
             THEN AnswerFile(f, <<"HIT">>, 1, "none")
             ELSE LET d == DownloadFile(f, o, now)
                      calls == IF f.present THEN 2 ELSE 1
                  IN IF d.err
                     THEN IF ~d.file.present
                          THEN Answer(d.file, <<"ERROR">>, d.code, TextBody("check_logs"),
                                      calls, Went(d))
                          ELSE AnswerFile(d.file, <<"STALE">>, calls, Went(d))
                     ELSE IF f.present THEN AnswerFile(d.file, <<"EXPIRED">>, calls, Went(d))
                     ELSE AnswerFile(d.file, <<"MISS">>, calls, Went(d))
    IN [a EXCEPT !.check = Checked(f, isGem, feErr)]

RubyGems(f, o, now, isGem, feErr) ==
    LET a == IF f.present /\ isGem THEN AnswerFile(f, <<"HIT">>, 0, "none")
             ELSE IF f.present /\ FilesEqual(f, feErr).equal
             THEN AnswerFile(f, <<"HIT">>, 1, "none")
             ELSE LET d == DownloadFile(f, o, now)
                      calls == IF f.present THEN 2 ELSE 1
                  IN IF d.err
                     THEN IF ~d.file.present
                          THEN Answer(d.file, <<"ERROR">>, d.code, TextBody("check_logs"),
                                      calls, Went(d))
                          ELSE AnswerFile(d.file, <<"STALE">>, calls, Went(d))
                     ELSE IF f.present THEN AnswerFile(d.file, <<"EXPIRED">>, calls, Went(d))
                     ELSE AnswerFile(d.file, <<"MISS">>, calls, Went(d))
    IN [a EXCEPT !.check = Checked(f, isGem, feErr)]

\* the pass-through: no cache; upXcs are the X-Cache-Status values among the
\* upstream response headers, which copyCargoHeaders relays
CargoAPIProxy(f, o, method, upXcs) ==
    IF method \notin {"GET", "HEAD"} THEN Answer(f, <<>>, 405, TextBody("none"), 0, "none")
    ELSE IF o.kind = "fail" /\ o.status = 502
    THEN Answer(f, <<>>, 502, TextBody("none"), 1, "failed")
    ELSE Answer(f, upXcs, o.status,
                TextBody(IF method = "HEAD" THEN "none" ELSE "upstream"), 1, "ok")

Respond(a) ==
    /\ pReqs < MaxPlainReqs
    /\ pFile' = a.file
    /\ pResp' = [status |-> a.status, xcs |-> a.xcs, body |-> a.body, calls |-> a.calls,
                 fetch |-> a.fetch, check |-> a.check]
    /\ pReqs' = pReqs + 1
    /\ UNCHANGED <<clock, pEp, pUpVer, notPlain>>

ReqGoList ==
    /\ pEp = "go_list"
    /\ \E o \in FetchOutcomes(clock) : Respond(GoProxyList(pFile, o, clock))

ReqGoInfo ==
    /\ pEp = "go_info"
    /\ \E o \in FetchOutcomes(clock), valid \in BOOLEAN :
          Respond(GoProxyInfo(pFile, o, clock, valid))

ReqGoMod ==
    /\ pEp = "go_mod"
    /\ \E o \in FetchOutcomes(clock), valid \in BOOLEAN :
          Respond(GoProxyMod(pFile, o, clock, valid))

ReqGoZip ==
    /\ pEp = "go_zip"
    /\ \E o \in FetchOutcomes(clock), valid \in BOOLEAN :
          Respond(GoProxyZip(pFile, o, clock, valid))

ReqGoLatest ==
    /\ pEp = "go_latest"
    /\ \E o \in FetchOutcomes(clock) : Respond(GoProxyLatest(pFile, o, clock))

ReqCargoCrate ==
    /\ pEp = "cargo_crate"
    /\ \E o \in FetchOutcomes(clock) : Respond(CargoCrateDownload(pFile, o, clock))

ReqNpmTarball ==
    /\ pEp = "npm_tarball"
    /\ \E o \in FetchOutcomes(clock) : Respond(handleNpmTarball(pFile, o, clock))

ReqNpmSearch ==
    /\ pEp = "npm_search"
    /\ \E o \in FetchOutcomes(clock) : Respond(handleNpmSearch(pFile, o, clock))

ReqRubyGems ==
    /\ pEp \in {"rubygems_gem", "rubygems_other"}
    /\ \E o \in FetchOutcomes(clock), feErr \in BOOLEAN :
          Respond(RubyGems(pFile, o, clock, pEp = "rubygems_gem", feErr))

ReqCargoAPI ==
    /\ pEp = "cargo_api"
    /\ \E o \in FetchOutcomes(clock), method \in {"GET", "HEAD", "POST"},
          upXcs \in {<<>>, <<"BYPASS">>} :
          Respond(CargoAPIProxy(pFile, o, method, upXcs))

PlainTick ==
    /\ clock < MaxClock
    /\ clock' = clock + TickStep
    /\ UNCHANGED <<pEp, pFile, pUpVer, pReqs, pResp, notPlain>>

PlainUpstreamChange ==
    /\ pUpVer < MaxVer
    /\ pUpVer' = pUpVer + 1
    /\ UNCHANGED <<clock, pEp, pFile, pReqs, pResp, notPlain>>

\* an empty cache; the conditional machine at rest
InitPlain ==
    /\ clock = 0
    /\ pEp \in PlainEndpoints
    /\ pFile = NoPFile
    /\ pUpVer = 1
    /\ pReqs = 0
    /\ pResp = NoPResp
    /\ InitCond
    /\ endpoint = "cargo_index"
    /\ PureIdle
    /\ GenIdle

NextPlain ==
    \/ ReqGoList
    \/ ReqGoInfo
    \/ ReqGoMod
    \/ ReqGoZip
    \/ ReqGoLatest
    \/ ReqCargoCrate
    \/ ReqNpmTarball
    \/ ReqNpmSearch
    \/ ReqRubyGems
    \/ ReqCargoAPI
    \/ PlainTick
    \/ PlainUpstreamChange

SpecPlain == InitPlain /\ [][NextPlain]_vars

(***************************************************************************)
(* Handlers and helpers that keep no state between steps: one call, one    *)
(* result.                                                                 *)
(***************************************************************************)
\* a call is answered once
Answering(op) == call.op = op /\ result = NoResult

Return(r) ==
    /\ result' = r
    /\ UNCHANGED <<call, notPure>>

(***************************************************************************)
(* The packument rewriter (rewriteNpmTarballs) and the tail of             *)
(* handleNpmMetadata that applies it.                                      *)
(* A URL string is kept as its parts; a path and a JSON string are         *)
(* sequences of tokens, "%2F" being an escaped slash in a path and "<",    *)
(* "\\u003c" the two spellings of one character in a JSON string.          *)
(***************************************************************************)
\* tokens in the path of a tarball URL
MaxPathLen == 3

PathTokens == {"a", "/", "%2F"}
RawPaths == UNION {[1..n -> PathTokens] : n \in 0..MaxPathLen}
Queries == {"", "q=1"}
Hosts == {"h1", "h2"}
Schemes == {"http", "https"}
RegistryKeys == {"k"}

\* a string url.Parse rejects
BadUrl == [bad |-> TRUE, scheme |-> "", host |-> "", path |-> <<>>, query |-> ""]

\* the strings a tarball field may hold: absolute URLs of the upstream
\* (their path empty or starting with a slash), relative references, the
\* empty string, and a string that does not parse
TarballStrings ==
    {[bad |-> FALSE, scheme |-> "https", host |-> "registry", path |-> pth, query |-> q] :
        pth \in {x \in RawPaths : x = <<>> \/ x[1] = "/"}, q \in Queries}
    \cup {[bad |-> FALSE, scheme |-> "", host |-> "", path |-> pth, query |-> q] :
        pth \in RawPaths, q \in Queries}
    \cup {BadUrl}

\* versions.<ver>.dist.tarball: absent, not a string, or a string
TarballValues ==
    {[type |-> "absent"], [type |-> "number"]}
    \cup {[type |-> "string", str |-> u] : u \in TarballStrings}

\* the text of some other string field of the document
JsonTexts == {<<"a">>, <<"<">>, <<"\\u003c">>, <<"a", "<">>}

\* json.Unmarshal of a string: escapes are decoded
JsonDecode(text) == [i \in 1..Len(text) |-> IF text[i] = "\\u003c" THEN "<" ELSE text[i]]

\* json.Marshal of a string: "<" is written as its escape
JsonEncode(value) == [i \in 1..Len(value) |-> IF value[i] = "<" THEN "\\u003c" ELSE value[i]]

\* url.Parse(...).Path: the path with its escapes decoded
ParsedPath(raw) == [i \in 1..Len(raw) |-> IF raw[i] = "%2F" THEN "/" ELSE raw[i]]

\* the tarball field after rewriteNpmTarballs; the new string is
\* baseURL + "/npm/" + key + parsed.Path [+ "?" + parsed.RawQuery], kept here
\* as the parts a client reading it gets
RewriteTarball(v, scheme, host, key) ==
    IF v.type # "string" THEN v
    ELSE IF v.str.bad \/ v.str.path = <<>> THEN v
    ELSE [type |-> "string",
          str |-> [bad |-> FALSE, scheme |-> scheme, host |-> host,
                   path |-> <<"/", "npm", "/", key>> \o ParsedPath(v.str.path),
                   query |-> v.str.query]]

\* the document: one version's tarball field and one other field
rewriteNpmTarballs(doc, scheme, host, key) ==
    [doc EXCEPT !.tarball = RewriteTarball(doc.tarball, scheme, host, key)]

\* os.ReadFile, json.Unmarshal, rewriteNpmTarballs, json.Marshal, c.Blob
NpmMetadataBody(c) ==
    LET parsed == [tarball |-> c.doc.tarball, other |-> JsonDecode(c.doc.other)]
        rewritten == rewriteNpmTarballs(parsed, c.scheme, c.host, c.key)
    IN [status |-> 200,
        doc |-> [tarball |-> rewritten.tarball, other |-> JsonEncode(rewritten.other)],
        file |-> c.doc]

NpmRewriteCalls ==
    {[op |-> "npm_packument", scheme |-> sc, host |-> h, key |-> k,
      doc |-> [tarball |-> t, other |-> o]] :
        sc \in Schemes, h \in Hosts, k \in RegistryKeys, t \in TarballValues, o \in JsonTexts}

ServePackument ==
    /\ Answering("npm_packument")
    /\ Return(NpmMetadataBody(call))

InitRewrite ==
    /\ call \in NpmRewriteCalls
    /\ result = NoResult
    /\ InitCond
    /\ endpoint = "npm_packument"
    /\ PlainIdle
    /\ GenIdle

NextRewrite == ServePackument

SpecRewrite == InitRewrite /\ [][NextRewrite]_vars

(***************************************************************************)
(* The generated Cargo config.json (CargoIndex, cleaned == "config.json"): *)
(* concurrent handler invocations on one file, written by os.WriteFile     *)
(* (open with O_CREATE|O_TRUNC, then write) and served by c.File.          *)
(***************************************************************************)
\* config.json requests in one behaviour
MaxCfgReqs == 3

\* json.Marshal(cargoIndexConfig{DL, API}): the two fields, each built from
\* scheme://host of the request and the registry key
ConfigJSON(scheme, host, key) ==
    <<[field |-> "dl", self |-> <<scheme, host>>, key |-> key],
      [field |-> "api", self |-> <<scheme, host>>, key |-> key]>>

\* write(2) at offset 0 of a file opened without O_APPEND
Overlay(old, new) ==
    IF Len(old) > Len(new) THEN new \o SubSeq(old, Len(new) + 1, Len(old)) ELSE new

CfgRespond(p, xcs, status, body) ==
    /\ cfgProc' = [cfgProc EXCEPT ![p].pc = "done", ![p].xcs = xcs,
                                  ![p].status = status, ![p].body = body]
    /\ cfgFirst' = IF cfgProc[p].n = 1
                   THEN [done |-> TRUE, xcs |-> xcs, status |-> status, body |-> body]
                   ELSE cfgFirst

\* the request arrives; os.Stat(dest)
CfgStat(p) ==
    /\ cfgProc[p].pc \in {"idle", "done"}
    /\ cfgReqs < MaxCfgReqs
    /\ (IF p = 1 THEN TRUE ELSE cfgProc[p - 1].pc # "idle")
    /\ \E sc \in Schemes, h \in Hosts :
          cfgProc' = [cfgProc EXCEPT ![p] =
              [CfgIdleProc EXCEPT !.pc = IF cfgFile.present THEN "hit" ELSE "open",
                                  !.n = cfgReqs + 1, !.scheme = sc, !.host = h,
                                  !.after = cfgFirst.done]]
    /\ cfgReqs' = cfgReqs + 1
    /\ UNCHANGED <<cfgFile, cfgFirst, notGen>>

\* X-Cache-Status: HIT, c.File(dest)
CfgSendFile(p) ==
    /\ cfgProc[p].pc = "hit"
    /\ CfgRespond(p, <<"HIT">>, 200, cfgFile.data)
    /\ UNCHANGED <<cfgFile, cfgReqs, notGen>>

\* json.Marshal (two strings: it does not fail), os.MkdirAll, and the open
\* of os.WriteFile, which creates the file or cuts it to length 0
CfgOpen(p) ==
    /\ cfgProc[p].pc = "open"
    /\ \/ \* MkdirAll or the open fails
          /\ CfgRespond(p, <<>>, 500, <<>>)
          /\ UNCHANGED cfgFile
       \/ /\ cfgFile' = [present |-> TRUE, data |-> <<>>]
          /\ cfgProc' = [cfgProc EXCEPT ![p].pc = "write"]
          /\ UNCHANGED cfgFirst
    /\ UNCHANGED <<cfgReqs, notGen>>

\* the write of os.WriteFile, then X-Cache-Status: MISS and c.Blob(data)
CfgWrite(p) ==
    /\ cfgProc[p].pc = "write"
    /\ LET data == ConfigJSON(cfgProc[p].scheme, cfgProc[p].host, "k")
       IN \/ \* the write fails
             /\ CfgRespond(p, <<>>, 500, <<>>)
             /\ UNCHANGED cfgFile
          \/ /\ cfgFile' = [cfgFile EXCEPT !.data = Overlay(cfgFile.data, data)]
             /\ CfgRespond(p, <<"MISS">>, 200, data)
    /\ UNCHANGED <<cfgReqs, notGen>>

InitConfig ==
    /\ GenIdle
    /\ InitCond
    /\ endpoint = "cargo_index"
    /\ PlainIdle
    /\ PureIdle

NextConfig ==
    \/ \E p \in Procs : CfgStat(p)
    \/ \E p \in Procs : CfgSendFile(p)
    \/ \E p \in Procs : CfgOpen(p)
    \/ \E p \in Procs : CfgWrite(p)

SpecConfig == InitConfig /\ [][NextConfig]_vars

(***************************************************************************)
(* Path mapping: from the wildcard of a request to the upstream URL and    *)
(* the cache files, per handler.  A string holding slashes is kept as the  *)
(* sequence of its segments ("" is <<"">>, "/a" is <<"", "a">>); a segment *)
(* of a URL is itself a sequence of parts joined by "%2F".                 *)
(***************************************************************************)
\* segments in a wildcard
MaxSegs == 3

EmptyStr == <<"">>

CommonSegs == {"a", "..", ".", ""}
Adapters == {"cargo_index", "cargo_api", "npm", "rubygems", "goproxy_list"}
AdapterSegs(ad) ==
    CASE ad = "cargo_index" -> {"config.json", "a.meta.json"}
      [] ad = "cargo_api" -> {}
      [] ad = "npm" -> {"%2E%2E", "-", "x.tgz", "@s", "v1", "search"}
      [] ad = "rubygems" -> {"_query", "__root", "sha256(q=1)"}
      [] ad = "goproxy_list" -> {}
SegPaths(ad) ==
    UNION {[1..n -> CommonSegs \cup AdapterSegs(ad)] : n \in 1..MaxSegs}
\* the list route of the Go proxy takes <module...>/@v/list
Wildcards(ad) ==
    IF ad = "goproxy_list" THEN {m \o <<"@v", "list">> : m \in SegPaths(ad)}
    ELSE SegPaths(ad)

\* hex.EncodeToString(sha256.Sum256(query))
QueryHash(q) == IF q = "q=1" THEN "sha256(q=1)" ELSE "sha256()"

\* strings.TrimPrefix(s, "/")
TrimLeadingSlash(s) == IF Len(s) >= 2 /\ s[1] = "" THEN Tail(s) ELSE s
\* strings.TrimSuffix(s, "/")
TrimTrailingSlash(s) == IF Len(s) >= 2 /\ s[Len(s)] = "" THEN SubSeq(s, 1, Len(s) - 1) ELSE s

Pop(stack) == IF stack = <<>> THEN <<>> ELSE SubSeq(stack, 1, Len(stack) - 1)

\* path.Clean of a rooted path: the names left after "", "." and ".."
RECURSIVE CleanFrom(_, _)
CleanFrom(stack, rest) ==
    IF rest = <<>> THEN stack
    ELSE LET s == Head(rest)
         IN CleanFrom(IF s \in {"", "."} THEN stack
                      ELSE IF s = ".." THEN Pop(stack)
                      ELSE Append(stack, s),
                      Tail(rest))

\* strings.TrimPrefix(path.Clean("/" + raw), "/")
CleanRel(raw) ==
    LET stack == CleanFrom(<<>>, raw)
    IN IF stack = <<>> THEN EmptyStr ELSE stack

\* url.PathUnescape, on the escapes a wildcard here can hold
PathUnescape(s) == [i \in 1..Len(s) |-> IF s[i] = "%2E%2E" THEN ".." ELSE s[i]]

\* a path of plain segments as a URL path
Plain(s) == [i \in 1..Len(s) |-> <<s[i]>>]

\* the path of the configured upstream base URL, and what the handlers
\* append to it
BasePath == <<"up">>
CargoIndexBase == BasePath \o <<"index">>
CargoApiBase == BasePath \o <<"api">>

\* the directory of one registry key in the cache
CacheRoot(eco, key) == <<"dir", eco, key>>

\* name + suffix, on the last segment of a file path
WithSuffix(f, suffix) == [f EXCEPT ![Len(f)] = @ \o suffix]

NotFound == [decision |-> "not_found", url |-> <<>>, query |-> "", files |-> {}]
ToFetch(url, q, files) == [decision |-> "fetch", url |-> url, query |-> q, files |-> files]

CargoIndexPaths(key, wildcard, q) ==
    LET cleaned == CleanRel(TrimLeadingSlash(wildcard))
        root == CacheRoot("cargo", key) \o <<"index">>
    IN IF cleaned = EmptyStr THEN NotFound
       ELSE IF cleaned = <<"config.json">>
       THEN [decision |-> "generate", url |-> <<>>, query |-> "",
             files |-> {root \o cleaned}]
       ELSE ToFetch(Plain(CargoIndexBase \o cleaned), q,
                  {root \o cleaned,
                   WithSuffix(root \o cleaned, ".meta.json")})

\* faulty variant: the pass-through refusing the empty path
CargoAPIPathsNoRoot(key, wildcard, q) ==
    LET cleaned == CleanRel(TrimLeadingSlash(wildcard))
    IN IF cleaned = EmptyStr THEN NotFound
       ELSE [decision |-> "relay", url |-> Plain(CargoApiBase \o cleaned),
             query |-> q, files |-> {}]

CargoAPIPaths(key, wildcard, q) ==
    LET cleaned == CleanRel(TrimLeadingSlash(wildcard))
    IN [decision |-> "relay",
        url |-> IF cleaned # EmptyStr THEN Plain(CargoApiBase \o cleaned)
                ELSE Plain(CargoApiBase),
        query |-> q, files |-> {}]

isNpmTarballPath(p) ==
    /\ \E i \in 2..(Len(p) - 1) : p[i] = "-"
    /\ p[Len(p)] = "x.tgz"

isNpmSearchPath(p) == p = <<"-", "v1", "search">>

\* npmEncodePackageName: a scoped name becomes one URL segment
npmEncodePackageName(name) ==
    IF name[1] = "@s" /\ Len(name) >= 2 THEN <<name>> ELSE Plain(name)

handleNpmMetadataPaths(key, rawPath, q) ==
    LET packageName == CleanRel(PathUnescape(rawPath))
        cacheDir == CacheRoot("npm", key) \o <<"metadata">> \o packageName
        filenameBase == IF q # "" THEN "packument.corgi." \o QueryHash(q)
                        ELSE "packument.corgi"
    IN IF packageName = EmptyStr THEN NotFound
       ELSE ToFetch(Plain(BasePath) \o npmEncodePackageName(packageName), q,
                  {cacheDir \o <<filenameBase \o ".json">>,
                   cacheDir \o <<filenameBase \o ".meta.json">>})

NpmProxyPaths(key, wildcard, q) ==
    LET rawPath == TrimTrailingSlash(TrimLeadingSlash(wildcard))
        cleaned == CleanRel(rawPath)
    IN IF rawPath = EmptyStr THEN NotFound
       ELSE IF cleaned = EmptyStr THEN NotFound
       ELSE IF isNpmSearchPath(cleaned)
       THEN ToFetch(Plain(BasePath \o <<"-", "v1", "search">>), q,
                  {CacheRoot("npm", key) \o
                      <<"search", (IF q # "" THEN QueryHash(q) ELSE "empty") \o ".json">>})
       ELSE IF isNpmTarballPath(cleaned)
       THEN ToFetch(Plain(BasePath \o cleaned), "",
                  {CacheRoot("npm", key) \o <<"tarballs">> \o cleaned})
       ELSE handleNpmMetadataPaths(key, cleaned, q)

RubyGemsPaths(key, wildcard, q) ==
    LET cleaned == CleanRel(TrimLeadingSlash(wildcard))
        isRoot == cleaned = EmptyStr \/ cleaned = <<".">>
        cacheKey == IF isRoot THEN <<"__root">> ELSE cleaned
        cachePath == IF q # "" THEN CleanRel(<<"_query", QueryHash(q)>> \o cacheKey)
                     ELSE cacheKey
    IN ToFetch(Plain(BasePath) \o (IF isRoot THEN <<EmptyStr>> ELSE Plain(cleaned)), q,
             {CacheRoot("rubygems", key) \o cachePath})

\* strings.TrimSuffix(module, "/@v/list")
TrimListSuffix(s) ==
    IF Len(s) >= 3 /\ SubSeq(s, Len(s) - 1, Len(s)) = <<"@v", "list">>
    THEN SubSeq(s, 1, Len(s) - 2) ELSE s

GoProxyListPaths(key, wildcard, q) ==
    LET module == TrimListSuffix(wildcard)
    IN ToFetch(Plain(BasePath \o module \o <<"@v", "list">>), "",
             {CacheRoot("goproxy", key) \o module \o <<"@v", "list">>})

HandlerPaths(c) ==
    CASE c.adapter = "cargo_index" -> CargoIndexPaths(c.key, c.wildcard, c.query)
      [] c.adapter = "cargo_api" -> CargoAPIPaths(c.key, c.wildcard, c.query)
      [] c.adapter = "npm" -> NpmProxyPaths(c.key, c.wildcard, c.query)
      [] c.adapter = "rubygems" -> RubyGemsPaths(c.key, c.wildcard, c.query)
      [] c.adapter = "goproxy_list" -> GoProxyListPaths(c.key, c.wildcard, c.query)

\* where the file system ends up when it walks a path: "" and "." stay,
\* ".." goes to the parent
Walk(p) == CleanFrom(<<>>, p)

\* a URL path with its dot segments removed (RFC 3986, 5.2.4)
RECURSIVE RemoveDots(_, _)
RemoveDots(stack, rest) ==
    IF rest = <<>> THEN stack
    ELSE LET s == Head(rest)
         IN RemoveDots(IF s = <<".">> THEN stack
                       ELSE IF s = <<"..">> THEN Pop(stack)
                       ELSE Append(stack, s),
                       Tail(rest))

IsPrefix(a, b) == Len(a) <= Len(b) /\ SubSeq(b, 1, Len(a)) = a

PathCalls ==
    UNION {[op : {"paths"}, adapter : {ad}, key : RegistryKeys,
            wildcard : Wildcards(ad), query : Queries] : ad \in Adapters}

MapPaths ==
    /\ Answering("paths")
    /\ Return(HandlerPaths(call))

InitPaths ==
    /\ call \in PathCalls
    /\ result = NoResult
    /\ InitCond
    /\ endpoint = "cargo_index"
    /\ PlainIdle
    /\ GenIdle

NextPaths == MapPaths

SpecPaths == InitPaths /\ [][NextPaths]_vars

(***************************************************************************)
(* The Cargo API pass-through (CargoAPIProxy) and its header filter        *)
(* (copyCargoHeaders).  Upstream sends header fields under names spelled   *)
(* in any letter case; the HTTP client hands the handler an http.Header,   *)
(* here a function from canonical names to sequences of values (<<>> for   *)
(* a name that is absent).                                                 *)
(***************************************************************************)
\* distinct header names in one upstream response
MaxHeaders == 2

cargoHopByHopHeaders ==
    {"Connection", "Keep-Alive", "Proxy-Authenticate", "Proxy-Authorization",
     "Te", "Trailer", "Transfer-Encoding", "Upgrade"}

\* header names as upstream may spell them
HeaderNames ==
    cargoHopByHopHeaders \cup
        {"connection", "TE", "transfer-encoding", "X-Custom", "x-custom", "Content-Type"}

\* http.CanonicalHeaderKey
CanonicalHeaderKey(name) ==
    CASE name = "connection" -> "Connection"
      [] name = "TE" -> "Te"
      [] name = "transfer-encoding" -> "Transfer-Encoding"
      [] name = "x-custom" -> "X-Custom"
      [] OTHER -> name

CanonNames == {CanonicalHeaderKey(n) : n \in HeaderNames}

HeaderValues == {<<"">>, <<"v1">>, <<"v1", "v2">>, <<"", "v1">>}

\* the header fields of an upstream response, by name as spelled
UpstreamHeaders ==
    UNION {[S -> HeaderValues] : S \in {T \in SUBSET HeaderNames : Cardinality(T) <= MaxHeaders}}

\* the orders in which fields under these names can arrive
KeyOrders(S) ==
    {o \in [1..Cardinality(S) -> S] : \A i, j \in 1..Cardinality(S) : i # j => o[i] # o[j]}

NoHeader == [n \in CanonNames |-> <<>>]

\* client.Do reading the response header: every field is filed under its
\* canonical name, in order of arrival
RECURSIVE ReadHeader(_, _, _)
ReadHeader(h, wire, order) ==
    IF order = <<>> THEN h
    ELSE ReadHeader([h EXCEPT ![CanonicalHeaderKey(Head(order))] = @ \o wire[Head(order)]],
                    wire, Tail(order))

\* http.Header.Get
HeaderGet(h, name) ==
    IF h[CanonicalHeaderKey(name)] = <<>> THEN "" ELSE h[CanonicalHeaderKey(name)][1]

\* faulty variant: every header of upstream is copied
copyCargoHeadersUnfiltered(dst, src) ==
    [n \in CanonNames |-> dst[n] \o src[n]]

\* for each key of src: skip it if it is hop-by-hop, else dst.Add each value
copyCargoHeaders(dst, src) ==
    [n \in CanonNames |->
        IF CanonicalHeaderKey(n) \in cargoHopByHopHeaders THEN dst[n]
        ELSE dst[n] \o src[n]]

\* c.Stream: the content type is written unless the response has one
Stream(header, contentType) ==
    IF HeaderGet(header, "Content-Type") = ""
    THEN [header EXCEPT !["Content-Type"] = <<contentType>>]
    ELSE header

NoRequest == [sent |-> FALSE, method |-> "", accept |-> "", agent |-> ""]

\* the wildcard as the router hands it over (decoded): a plain path, and one
\* with a per cent sign that starts no escape
ApiPaths == {"v1/crates", "%zz"}

\* http.NewRequest(method, upstreamURL, http.NoBody): url.Parse rejects an
\* invalid escape
NewRequestFails(path) == path = "%zz"

\* faulty variant: the upstream request is always a GET
CargoAPIRelayAsGet(c, src) ==
    IF c.method \notin {"GET", "HEAD"}
    THEN [status |-> 405, header |-> NoHeader, body |-> "none", request |-> NoRequest]
    ELSE IF NewRequestFails(c.path)
    THEN [status |-> 400, header |-> NoHeader, body |-> "empty", request |-> NoRequest]
    ELSE LET req == [sent |-> TRUE, method |-> "GET", accept |-> c.accept,
                     agent |-> "cargo"]
         IN IF c.upstream.err
            THEN [status |-> 502, header |-> NoHeader, body |-> "empty", request |-> req]
            ELSE LET copied == copyCargoHeaders(NoHeader, src)
                     got == HeaderGet(src, "Content-Type")
                     contentType == IF got = "" THEN "application/json" ELSE got
                 IN IF c.method = "HEAD"
                    THEN [status |-> c.upstream.status, header |-> copied,
                          body |-> "none", request |-> req]
                    ELSE [status |-> c.upstream.status,
                          header |-> Stream(copied, contentType),
                          body |-> "upstream", request |-> req]

\* CargoAPIProxy, headers included, for a registry key with a well-formed
\* base URL; src is resp.Header
CargoAPIRelay(c, src) ==
    IF c.method \notin {"GET", "HEAD"}
    THEN [status |-> 405, header |-> NoHeader, body |-> "none", request |-> NoRequest]
    ELSE IF NewRequestFails(c.path)
    THEN [status |-> 400, header |-> NoHeader, body |-> "empty", request |-> NoRequest]
    ELSE LET req == [sent |-> TRUE, method |-> c.method, accept |-> c.accept,
                     agent |-> "cargo"]
         IN IF c.upstream.err
            THEN [status |-> 502, header |-> NoHeader, body |-> "empty", request |-> req]
            ELSE LET copied == copyCargoHeaders(NoHeader, src)
                     got == HeaderGet(src, "Content-Type")
                     contentType == IF got = "" THEN "application/json" ELSE got
                 IN IF c.method = "HEAD"
                    THEN [status |-> c.upstream.status, header |-> copied,
                          body |-> "none", request |-> req]
                    ELSE [status |-> c.upstream.status,
                          header |-> Stream(copied, contentType),
                          body |-> "upstream", request |-> req]

UpstreamAnswers ==
    {[err |-> TRUE, status |-> 0, header |-> <<>>]} \cup
        [err : {FALSE}, status : {200, 404}, header : UpstreamHeaders]

RelayCalls ==
    [op : {"cargo_api"}, method : {"GET", "HEAD", "POST"}, path : ApiPaths,
     accept : {"", "application/json"}, upstream : UpstreamAnswers]

Relay ==
    /\ Answering("cargo_api")
    /\ \E order \in KeyOrders(IF call.upstream.err THEN {} ELSE DOMAIN call.upstream.header) :
          Return(CargoAPIRelay(call, ReadHeader(NoHeader, call.upstream.header, order)))

InitRelay ==
    /\ call \in RelayCalls
    /\ result = NoResult
    /\ InitCond
    /\ endpoint = "cargo_index"
    /\ PlainIdle
    /\ GenIdle

NextRelay == Relay

SpecRelay == InitRelay /\ [][NextRelay]_vars

(***************************************************************************)
(* The upstream requests of each handler, as a function of the client's   *)
(* request headers and of the cache state the handler finds.  A header    *)
(* that is not set has the value "".                                      *)
(***************************************************************************)
AcceptValues ==
    {"", "application/json", "application/vnd.npm.install-v1+json", "*/*", "text/html",
     "application/json, */*", "text/html, application/json"}

\* the headers of a client request
ClientHeaders ==
    [accept : AcceptValues, authorization : {"", "Bearer t"}, cookie : {"", "sid=1"},
     ifNoneMatch : {"", "e9"}]

\* what the handler finds on disk: the entry, whether its mtime is within
\* the TTL, and the validators in its sidecar
CacheStates ==
    [present : BOOLEAN, fresh : BOOLEAN, etag : {"", "e0"}, lastModified : {"", "lm0"}]

RequestHandlers ==
    {"cargo_api", "cargo_index", "cargo_crate", "npm_packument", "npm_tarball",
     "npm_search", "rubygems", "goproxy_list", "goproxy_zip", "goproxy_latest"}

NoHeaders ==
    [agent |-> "", accept |-> "", ifNoneMatch |-> "", ifModifiedSince |-> "",
     authorization |-> "", cookie |-> ""]

\* types.RequestHeaders with a User-Agent and, unless "", an Accept
RequestHeaders(agent, accept) == [NoHeaders EXCEPT !.agent = agent, !.accept = accept]

\* the request DownloadFileConditional sends
DownloadFileConditionalRequest(url, headers, etag, lastModified) ==
    [method |-> "GET", url |-> url,
     header |-> [headers EXCEPT !.agent = IF headers.agent = "" THEN "hub" ELSE @,
                                !.ifNoneMatch = etag,
                                !.ifModifiedSince = lastModified]]

\* the request DownloadFile sends: as above, without validators
DownloadFileRequest(url, headers) ==
    [method |-> "GET", url |-> url,
     header |-> [headers EXCEPT !.agent = IF headers.agent = "" THEN "hub" ELSE @]]

\* the request FilesEqual sends: it is given the URL and the file only
FilesEqualRequest(url) == [method |-> "GET", url |-> url, header |-> NoHeaders]

\* strings.Contains(accept, t), for the media types the handler looks for
Contains(accept, t) ==
    CASE accept = "application/json, */*" -> t \in {"application/json", "*/*"}
      [] accept = "text/html, application/json" -> t = "application/json"
      [] OTHER -> accept # "" /\ t = accept

\* hex.EncodeToString(sha256.Sum256(accept)[:8]), taken as injective
AcceptHash(accept) == "sha256(" \o accept \o ")"

\* faulty variant: the client's Accept goes upstream as it came
npmAcceptHeaderVerbatim(accept) ==
    IF \/ Contains(accept, "application/vnd.npm.install-v1+json")
       \/ accept = ""
       \/ Contains(accept, "*/*")
    THEN [cacheKey |-> "corgi", upstreamAccept |-> accept]
    ELSE IF Contains(accept, "application/json")
    THEN [cacheKey |-> "full", upstreamAccept |-> accept]
    ELSE [cacheKey |-> "accept-" \o AcceptHash(accept), upstreamAccept |-> accept]

npmAcceptHeader(accept) ==
    IF \/ Contains(accept, "application/vnd.npm.install-v1+json")
       \/ accept = ""
       \/ Contains(accept, "*/*")
    THEN [cacheKey |-> "corgi", upstreamAccept |-> "application/vnd.npm.install-v1+json"]
    ELSE IF Contains(accept, "application/json")
    THEN [cacheKey |-> "full", upstreamAccept |-> "application/json"]
    ELSE [cacheKey |-> "accept-" \o AcceptHash(accept), upstreamAccept |-> accept]

\* the validators a conditional handler passes on
MetaOf(cache) ==
    IF cache.present THEN [etag |-> cache.etag, lastModified |-> cache.lastModified]
    ELSE [etag |-> "", lastModified |-> ""]

\* faulty variant: the pass-through handing the Authorization header on
CargoAPIRequestsWithAuth(c) ==
    IF c.method \notin {"GET", "HEAD"} THEN <<>>
    ELSE <<[method |-> c.method, url |-> c.url,
            header |-> [RequestHeaders("cargo", c.client.accept)
                            EXCEPT !.authorization = c.client.authorization]]>>

CargoAPIRequests(c) ==
    IF c.method \notin {"GET", "HEAD"} THEN <<>>
    ELSE <<[method |-> c.method, url |-> c.url,
            header |-> RequestHeaders("cargo", c.client.accept)]>>

CargoIndexRequests(c) ==
    <<DownloadFileConditionalRequest(c.url, RequestHeaders("cargo", "application/json"),
                                     MetaOf(c.cache).etag, MetaOf(c.cache).lastModified)>>

NpmMetadataRequests(c) ==
    <<DownloadFileConditionalRequest(
          c.url, RequestHeaders("npm", npmAcceptHeader(c.client.accept).upstreamAccept),
          MetaOf(c.cache).etag, MetaOf(c.cache).lastModified)>>

\* handlers that serve the file when it is there
ImmutableRequests(c, agent) ==
    IF c.cache.present THEN <<>> ELSE <<DownloadFileRequest(c.url, RequestHeaders(agent, ""))>>

\* handlers that serve the file while its mtime is within the TTL
TTLRequests(c, agent, accept) ==
    IF c.cache.present /\ c.cache.fresh THEN <<>>
    ELSE <<DownloadFileRequest(c.url, RequestHeaders(agent, accept))>>

RubyGemsRequests(c) ==
    LET fetch == <<DownloadFileRequest(c.url, RequestHeaders("rubygems", ""))>>
    IN IF ~c.cache.present THEN fetch
       ELSE IF c.gem THEN <<>>
       ELSE <<FilesEqualRequest(c.url)>> \o (IF c.equal THEN <<>> ELSE fetch)

UpstreamRequests(c) ==
    CASE c.handler = "cargo_api" -> CargoAPIRequests(c)
      [] c.handler = "cargo_index" -> CargoIndexRequests(c)
      [] c.handler = "cargo_crate" -> ImmutableRequests(c, "cargo")
      [] c.handler = "npm_packument" -> NpmMetadataRequests(c)
      [] c.handler = "npm_tarball" -> ImmutableRequests(c, "npm")
      [] c.handler = "npm_search" -> TTLRequests(c, "npm", "application/json")
      [] c.handler = "rubygems" -> RubyGemsRequests(c)
      [] c.handler = "goproxy_list" ->
            <<DownloadFileRequest(c.url, RequestHeaders("go/goproxy", ""))>>
      [] c.handler = "goproxy_zip" -> ImmutableRequests(c, "go/goproxy")
      [] c.handler = "goproxy_latest" -> TTLRequests(c, "go/goproxy", "")

RequestCalls ==
    [op : {"requests"}, handler : RequestHandlers, method : {"GET", "HEAD", "POST"},
     url : {"u"}, client : ClientHeaders, cache : CacheStates,
     gem : BOOLEAN, equal : BOOLEAN]

IssueRequests ==
    /\ Answering("requests")
    /\ Return([requests |-> UpstreamRequests(call)])

InitRequests ==
    /\ call \in RequestCalls
    /\ result = NoResult
    /\ InitCond
    /\ endpoint = "cargo_index"
    /\ PlainIdle
    /\ GenIdle

NextRequests == IssueRequests

SpecRequests == InitRequests /\ [][NextRequests]_vars

(***************************************************************************)
(* The configuration check at the head of the three Cargo handlers         *)
(* (CargoIndex, CargoCrateDownload, CargoAPIProxy) and                     *)
(* cargoEndpointsFromSource.  Base URLs are taken from a list of strings   *)
(* of each kind; trimming and parsing are tabulated on that list.          *)
(***************************************************************************)
BaseStrings ==
    {"", " ", "/", "crates.io", "https://", "https://%zz",
     "https://crates.io", "https://crates.io/", " https://crates.io "}

\* strings.TrimSuffix(strings.TrimSpace(base), "/")
TrimBase(base) ==
    CASE base \in {"", " ", "/"} -> ""
      [] base \in {"https://crates.io", "https://crates.io/", " https://crates.io "} ->
            "https://crates.io"
      [] base = "https://" -> "https:/"
      [] OTHER -> base

\* url.Parse on a trimmed base
ParseBase(trimmed) ==
    CASE trimmed = "crates.io" -> [err |-> FALSE, Scheme |-> "", Host |-> ""]
      [] trimmed = "https:/" -> [err |-> FALSE, Scheme |-> "https", Host |-> ""]
      [] trimmed = "https://%zz" -> [err |-> TRUE, Scheme |-> "", Host |-> ""]
      [] trimmed = "https://crates.io" ->
            [err |-> FALSE, Scheme |-> "https", Host |-> "crates.io"]

\* types.CargoSource
CargoSources ==
    [Base : BaseStrings, Index : {"", "https://index"}, DL : {"", "https://dl"},
     API : {"", "https://api"}]

NoEndpoints == [err |-> TRUE, Index |-> "", DL |-> "", API |-> ""]

\* faulty variant: the base is not parsed
cargoEndpointsFromSourceUnparsed(source) ==
    LET trimmed == TrimBase(source.Base)
    IN IF trimmed = "" THEN NoEndpoints
       ELSE [err |-> FALSE,
             Index |-> IF source.Index # "" THEN source.Index ELSE trimmed \o "/index",
             DL |-> IF source.DL # "" THEN source.DL ELSE trimmed \o "/api/v1/crates",
             API |-> IF source.API # "" THEN source.API ELSE trimmed \o "/api"]

cargoEndpointsFromSource(source) ==
    LET trimmed == TrimBase(source.Base)
        parsed == ParseBase(trimmed)
    IN IF trimmed = "" THEN NoEndpoints
       ELSE IF parsed.err \/ parsed.Scheme = "" \/ parsed.Host = "" THEN NoEndpoints
       ELSE [err |-> FALSE,
             Index |-> IF source.Index # "" THEN source.Index ELSE trimmed \o "/index",
             DL |-> IF source.DL # "" THEN source.DL ELSE trimmed \o "/api/v1/crates",
             API |-> IF source.API # "" THEN source.API ELSE trimmed \o "/api"]

\* the head of CargoIndex, CargoCrateDownload and CargoAPIProxy; past it the
\* handler goes on with the endpoint it is concerned with
CargoConfigCheck(c) ==
    IF ~c.configured \/ c.source.Base = ""
    THEN [status |-> 404, body |-> "", upstream |-> "", proceeds |-> FALSE]
    ELSE LET endpoints == cargoEndpointsFromSource(c.source)
         IN IF endpoints.err
            THEN [status |-> 500, body |-> "", upstream |-> "", proceeds |-> FALSE]
            ELSE [status |-> 0, body |-> "",
                  upstream |-> CASE c.handler = "cargo_index" -> endpoints.Index
                                 [] c.handler = "cargo_crate" -> endpoints.DL
                                 [] c.handler = "cargo_api" -> endpoints.API,
                  proceeds |-> TRUE]

\* a key missing from cfg.Server.Cargo yields the zero CargoSource
ConfigCalls ==
    [op : {"cargo_config"}, handler : {"cargo_index", "cargo_crate", "cargo_api"},
     configured : {TRUE}, source : CargoSources]
    \cup
    [op : {"cargo_config"}, handler : {"cargo_index", "cargo_crate", "cargo_api"},
     configured : {FALSE}, source : {[Base |-> "", Index |-> "", DL |-> "", API |-> ""]}]

CheckConfig ==
    /\ Answering("cargo_config")
    /\ Return(CargoConfigCheck(call))

InitConfigCheck ==
    /\ call \in ConfigCalls
    /\ result = NoResult
    /\ InitCond
    /\ endpoint = "cargo_index"
    /\ PlainIdle
    /\ GenIdle

NextConfigCheck == CheckConfig

SpecConfigCheck == InitConfigCheck /\ [][NextConfigCheck]_vars

(***************************************************************************)
(* Claims about the conditional endpoints.                                 *)
(***************************************************************************)
\* C1: atomic publish. In every reachable state the final cache path is
\* absent or holds the complete body of one upstream 200 response, never a
\* cut body and never a mixture of two bodies.
AtomicPublish == dest # NoIno => inodes[dest].data \in CompleteBodies

AllReturnedCold == \A p \in Procs : proc[p].pc = "done" /\ ~proc[p].cacheExists

\* C2: quiescent consistency. When the concurrent requests for the uncached
\* resource have all returned and one of them published, the final file is
\* one of the 200 bodies those requests received and no .tmp.* file remains.
QuiescentConsistency ==
    (AllReturnedCold /\ \E p \in Procs : ~proc[p].err)
        => /\ dest # NoIno
           /\ inodes[dest].data \in {Body(proc[p].rver) : p \in {q \in Procs : proc[q].rver # 0}}
           /\ \A n \in TempNames : tmp[n] = NoIno

ConditionalHeaders ==
    [][\A p \in Procs :
        /\ (proc[p].pc \in {"idle", "done"} /\ proc'[p].pc = "fetch") =>
              /\ proc'[p].cacheExists = (dest # NoIno)
              /\ proc'[p].mETag = (IF dest # NoIno /\ meta.present THEN meta.etag ELSE 0)
              /\ proc'[p].mLM = (IF dest # NoIno /\ meta.present THEN meta.lm ELSE 0)
        /\ (proc[p].pc = "fetch" /\ proc'[p].pc # "fetch") =>
              /\ proc'[p].hdr.inm = proc[p].mETag
              /\ proc'[p].hdr.ims = proc[p].mLM
      ]_vars

\* one GET went out bare although a sidecar was on disk, the other carried
\* validators
ConditionalHeadersWitness ==
    /\ proc[1].pc = "handle" /\ ~proc[1].cacheExists /\ proc[1].hdr = [inm |-> 0, ims |-> 0]
    /\ meta.present
    /\ proc[2].pc = "handle" /\ proc[2].cacheExists /\ proc[2].hdr.inm # 0

InNotModifiedTail(p) == proc[p].notMod /\ proc[p].pc \in {"handle", "serve"}

FilesAndEntryUnchanged ==
    /\ dest' = dest
    /\ dest # NoIno => inodes'[dest] = inodes[dest]
    /\ tmp' = tmp
    /\ meta'.present = meta.present

RevalidatedHitServesValidatedBytes ==
    [][\A p \in Procs :
        (proc[p].pc = "serve" /\ proc[p].notMod /\ proc'[p].pc = "done"
            /\ proc'[p].status = 200) =>
            LET v == IF proc[p].hdr.inm # 0 THEN proc[p].hdr.inm ELSE proc[p].hdr.ims
            IN \E w \in Versions : w >= v /\ proc'[p].body.data = Body(w)
      ]_vars

(***************************************************************************)
(* Claims about the endpoints of the sequential machine.                   *)
(***************************************************************************)
Answered == pReqs' = pReqs + 1

CachingPlainEndpoints == PlainEndpoints \ {"cargo_api"}

FileBody(f) == [kind |-> "file", ver |-> f.body]

\* C3 as claimed: on every caching endpoint, when the upstream fetch fails
\* and a cached copy exists, the response is 200 with the cached body and
\* X-Cache-Status: STALE.
DegradedServe ==
    (pEp \in CachingPlainEndpoints /\ pResp.fetch = "failed" /\ pFile.present)
        => /\ pResp.status = 200
           /\ pResp.body = FileBody(pFile)
           /\ pResp.xcs = <<"STALE">>

CacheStatusValues == {"HIT", "MISS", "EXPIRED", "STALE", "ERROR"}

\* C4 as claimed: every response served from cache, freshly fetched or
\* answering a failed fetch, from a caching adapter or the Cargo API
\* pass-through, carries exactly one X-Cache-Status, valued HIT, MISS,
\* EXPIRED, STALE or ERROR.
ExactlyOneCacheStatus ==
    (pResp.fetch # "none" \/ pResp.body.kind = "file")
        => Len(pResp.xcs) = 1 /\ pResp.xcs[1] \in CacheStatusValues

ImmutableAsClaimed ==
    {"rubygems_gem", "cargo_crate", "go_zip", "go_mod", "go_info", "npm_tarball"}

\* C8 as claimed: on every endpoint classified immutable a request arriving
\* while the entry exists is served HIT from disk without contacting
\* upstream, so that two requests cost one upstream request.
ImmutableHit ==
    [][(Answered /\ pEp \in ImmutableAsClaimed /\ pResp'.body.kind # "invalid_path") =>
        /\ pFile.present =>
              pResp'.calls = 0 /\ pResp'.xcs = <<"HIT">> /\ pResp'.body = FileBody(pFile)
        /\ ~pFile.present => pResp'.calls = 1
      ]_vars

\* C8 amended: that holds for RubyGems .gem, Cargo crates, Go zip and npm
\* tarballs; Go info and mod contact upstream once on every request and
\* answer MISS with the fresh file when that fetch succeeds.
ImmutableHitExceptGoInfoMod ==
    [][(Answered /\ pResp'.body.kind # "invalid_path") =>
        /\ pEp \in {"rubygems_gem", "cargo_crate", "go_zip", "npm_tarball"} =>
              /\ pFile.present =>
                    /\ pResp'.calls = 0 /\ pResp'.xcs = <<"HIT">>
                    /\ pResp'.status = 200 /\ pResp'.body = FileBody(pFile)
                    /\ pFile' = pFile
              /\ ~pFile.present => pResp'.calls = 1
        /\ pEp \in {"go_info", "go_mod"} =>
              /\ pResp'.calls = 1
              /\ pResp'.fetch = "ok" =>
                    pResp'.xcs = <<"MISS">> /\ pResp'.body = FileBody(pFile')
      ]_vars

\* a second request for a module zip answered HIT from disk, none sent upstream
ImmutableHitWitness ==
    /\ pEp = "go_zip" /\ pReqs = 2
    /\ pResp.xcs = <<"HIT">> /\ pResp.calls = 0 /\ pResp.body = FileBody(pFile)

\* C9 as claimed: once a GET has populated the @latest entry, a GET less
\* than one hour after that fetch is answered HIT without contacting
\* upstream, whatever Last-Modified came with the entry; a GET more than one
\* hour after it refetches.
GoLatestTTLFromFetch ==
    [][(Answered /\ pEp = "go_latest" /\ pFile.present) =>
        /\ clock - pFile.at < GoLatestTTL =>
              pResp'.xcs = <<"HIT">> /\ pResp'.calls = 0
        /\ clock - pFile.at > GoLatestTTL => pResp'.calls = 1
      ]_vars

TarballRewritten ==
    (call.op = "npm_packument" /\ result # NoResult /\ result.status = 200) =>
        LET c == call.doc.tarball
            t == result.doc.tarball
        IN /\ (c.type = "string" /\ ~c.str.bad /\ c.str.host # "" /\ c.str.path # <<>>) =>
                 /\ t.type = "string"
                 /\ t.str.scheme = call.scheme /\ t.str.host = call.host
                 /\ t.str.path = <<"/", "npm", "/", call.key>> \o c.str.path
                 /\ t.str.query = c.str.query
           /\ JsonDecode(result.doc.other) = JsonDecode(call.doc.other)
           /\ result.file = call.doc

(***************************************************************************)
(* Claims about the generated Cargo config.json.                           *)
(***************************************************************************)
\* C13: once the first request for config.json has been answered 200, it was
\* answered MISS, and every request arriving after that answer is answered
\* HIT with a body identical to that first response.  (No step of the
\* handler on this path calls upstream.)
ConfigWrittenOnce ==
    (cfgFirst.done /\ cfgFirst.status = 200) =>
        /\ cfgFirst.xcs = <<"MISS">>
        /\ \A p \in Procs :
              (cfgProc[p].pc = "done" /\ cfgProc[p].after) =>
                  /\ cfgProc[p].xcs = <<"HIT">>
                  /\ cfgProc[p].status = 200
                  /\ cfgProc[p].body = cfgFirst.body

\* C14: every 200 response for config.json carries dl and api built from the
\* scheme and host of the request being answered.
ConfigNamesSelf ==
    \A p \in Procs :
        (cfgProc[p].pc = "done" /\ cfgProc[p].status = 200) =>
            cfgProc[p].body = ConfigJSON(cfgProc[p].scheme, cfgProc[p].host, "k")

(***************************************************************************)
(* Claims about path mapping.                                              *)
(***************************************************************************)
\* C15: whatever the wildcard, every cache file a handler reads or writes
\* lies inside <dir>/<ecosystem>/<key>/ once the file system has walked the
\* path, and the path of the upstream URL lies under the upstream base.
PathContainment ==
    result # NoResult =>
        LET eco == CASE call.adapter \in {"cargo_index", "cargo_api"} -> "cargo"
                     [] call.adapter = "goproxy_list" -> "goproxy"
                     [] OTHER -> call.adapter
            root == CacheRoot(eco, call.key)
        IN /\ \A f \in result.files :
                  IsPrefix(root, Walk(f)) /\ Len(Walk(f)) > Len(root)
           /\ result.url # <<>> =>
                  IsPrefix(Plain(BasePath), RemoveDots(<<>>, result.url))

\* the wildcard of the request is empty, or empty after cleaning
EmptyWildcard ==
    /\ call.op = "paths"
    /\ call.adapter \in {"cargo_index", "cargo_api", "npm", "rubygems"}
    /\ CleanRel(TrimLeadingSlash(call.wildcard)) = EmptyStr

\* C16 (as stated): on Cargo index, Cargo API, npm and RubyGems a wildcard
\* that is empty after cleaning is answered 404, with no upstream request
\* and no cache file read or written.
EmptyPathNotFound ==
    (result # NoResult /\ EmptyWildcard) => result = NotFound

\* C16 (amended): Cargo index and npm answer 404 with no upstream request
\* and no cache file; the Cargo API pass-through relays the request to the
\* API base, without a cache file; RubyGems fetches <base>/ into the cache
\* file __root (under _query/<hash>/ when there is a query).
EmptyPathByAdapter ==
    (result # NoResult /\ EmptyWildcard) =>
        CASE call.adapter \in {"cargo_index", "npm"} -> result = NotFound
          [] call.adapter = "cargo_api" ->
                result = [decision |-> "relay", url |-> Plain(CargoApiBase),
                          query |-> call.query, files |-> {}]
          [] call.adapter = "rubygems" ->
                /\ result.decision = "fetch"
                /\ result.url = Plain(BasePath) \o <<EmptyStr>>
                /\ result.query = call.query
                /\ result.files =
                      {CacheRoot("rubygems", call.key) \o
                          (IF call.query # ""
                           THEN <<"_query", QueryHash(call.query), "__root">>
                           ELSE <<"__root">>)}

\* a wildcard that cleans to nothing has been answered by the pass-through
EmptyPathWitness ==
    /\ result # NoResult
    /\ EmptyWildcard
    /\ call.adapter = "cargo_api"
    /\ call.wildcard = <<"a", "..">>
    /\ result.decision = "relay"

\* C17: no two RubyGems requests under one registry key that address
\* different upstream URLs (cleaned path or query differ) map to the same
\* cache file, the query hash being injective.
RubyGemsKeysDistinct ==
    (result # NoResult /\ call.op = "paths" /\ call.adapter = "rubygems") =>
        \A w \in Wildcards("rubygems"), q \in Queries :
            LET other == RubyGemsPaths(call.key, w, q)
            IN <<other.url, other.query>> # <<result.url, result.query>> =>
                   other.files # result.files

(***************************************************************************)
(* Claims about the Cargo API pass-through.                                *)
(***************************************************************************)
\* the upstream answer has been relayed
Relayed ==
    /\ result # NoResult
    /\ call.op = "cargo_api"
    /\ call.method \in {"GET", "HEAD"}
    /\ ~NewRequestFails(call.path)
    /\ ~call.upstream.err

RECURSIVE ValuesIn(_, _)
ValuesIn(wire, order) ==
    IF order = <<>> THEN <<>> ELSE wire[Head(order)] \o ValuesIn(wire, Tail(order))

\* the values upstream sent under the spellings of one canonical name, in
\* each order of arrival
UpstreamValues(n) ==
    LET S == {k \in DOMAIN call.upstream.header : CanonicalHeaderKey(k) = n}
    IN {ValuesIn(call.upstream.header, o) : o \in KeyOrders(S)}

CredentialsNotForwarded ==
    (result # NoResult /\ call.op = "requests") =>
        /\ \A h \in ClientHeaders :
              h.accept = call.client.accept =>
                  UpstreamRequests([call EXCEPT !.client = h]) = result.requests
        /\ \A i \in 1..Len(result.requests) :
              /\ result.requests[i].header.authorization = ""
              /\ result.requests[i].header.cookie = ""
              /\ result.requests[i].header.ifNoneMatch \in {"", call.cache.etag}

\* a client request with credentials and an Accept header went through the
\* pass-through
CredentialsWitness ==
    /\ result # NoResult
    /\ call.op = "requests"
    /\ call.handler = "cargo_api"
    /\ call.client.authorization # ""
    /\ call.client.cookie # ""
    /\ call.client.accept = "text/html"
    /\ Len(result.requests) = 1
    /\ result.requests[1].header.accept = "text/html"

(***************************************************************************)
(* Claims about Cargo configuration errors.                                *)
(***************************************************************************)
\* base URLs that are blank, or lack a scheme or a host, or do not parse
MalformedBases == {" ", "/", "crates.io", "https://", "https://%zz"}

ConfigAnswered == result # NoResult /\ call.op = "cargo_config"

\* C20 (as stated): a request for a registry key that is missing from the
\* configuration, or whose base URL is empty or malformed, is answered 500
\* with an empty body, and upstream is not contacted.
ConfigErrorIs500 ==
    (ConfigAnswered /\ (~call.configured \/ call.source.Base \in MalformedBases \cup {""})) =>
        result.status = 500 /\ result.body = "" /\ ~result.proceeds

\* C20 (amended): a missing key or an empty base URL is answered 404, a
\* base URL that is blank after trimming, lacks a scheme or a host, or does
\* not parse is answered 500; the body is empty and upstream is not
\* contacted in either case.
ConfigErrorIs404Or500 ==
    ConfigAnswered =>
        /\ (~call.configured \/ call.source.Base = "") =>
              result.status = 404 /\ result.body = "" /\ ~result.proceeds
        /\ (call.configured /\ call.source.Base \in MalformedBases) =>
              result.status = 500 /\ result.body = "" /\ ~result.proceeds

\* a base URL without a scheme has been refused
ConfigErrorWitness ==
    /\ ConfigAnswered
    /\ call.configured
    /\ call.source.Base = "crates.io"
    /\ result.status = 500

(***************************************************************************)
(* Claims about the Go proxy endpoints.                                    *)
(***************************************************************************)
\* C21: on every Go proxy endpoint, a request whose upstream fetch failed
\* and that found and left no cached file is answered with status 410.
GoneIs410 ==
    (/\ pEp \in {"go_list", "go_info", "go_mod", "go_zip", "go_latest"}
     /\ pResp.fetch = "failed"
     /\ ~pFile.present) =>
        pResp.status = 410

(***************************************************************************)
(* Claims about the RubyGems endpoint.                                     *)
(***************************************************************************)
\* a request for a RubyGems path that is not a gem is answered in this step
RubyGemsAnswered == pEp = "rubygems_other" /\ pReqs' = pReqs + 1

EntriesNeverDeleted == [][dest # NoIno => dest' # NoIno]_vars

\* an entry is in place while a later fetch for it has failed midway and
\* another invocation is still at work
EntriesNeverDeletedWitness ==
    /\ dest # NoIno
    /\ \E p \in Procs : /\ proc[p].pc = "handle" /\ proc[p].err
                        /\ proc[p].code = 400 /\ proc[p].cacheExists
    /\ \E q \in Procs : proc[q].pc \in {"copy", "finish", "rename", "defer"}

\* invocation p comes back from DownloadFileConditional with an error
ReturnsError(p) ==
    /\ proc[p].pc \in {"fetch", "create", "defer"}
    /\ proc'[p].pc = "handle"
    /\ proc'[p].err

\* C24: a fetch that returns an error has left the cache as it was: it changed
\* no byte of the file at the final path and its returning step does not
\* replace that file, the temporary file of the fetch is removed, and the
\* handler then leaves the sidecar alone.
FailedFetchLeavesCache ==
    [][\A p \in Procs :
        /\ ReturnsError(p) =>
              /\ dest' = dest
              /\ ~proc[p].wrote
              /\ proc[p].name # NoTmp => tmp'[proc[p].name] = NoIno
        /\ (proc[p].pc = "handle" /\ proc[p].err /\ proc'[p] # proc[p]) => meta' = meta
      ]_vars

\* the transport fails under invocation p in this step: client.Do returns
\* no response, or the body stream breaks while it is copied
TransportFailure(p) ==
    \/ /\ proc[p].pc = "fetch" /\ proc'[p].pc = "handle"
       /\ proc'[p].err /\ proc'[p].nE = 0 /\ proc'[p].nL = 0
    \/ proc[p].pc = "copy" /\ proc'[p].pc = "defer"

\* C25: every transport failure of the conditional fetcher, before a
\* response or while the body is read, is reported as 502 with an error.
TransportFailureIs502 ==
    [][\A p \in Procs :
        TransportFailure(p) => proc'[p].code = 502 /\ proc'[p].err]_vars

(***************************************************************************)
(* The meta sidecar of a conditional endpoint, read and written by the     *)
(* handler around one fetch.                                               *)
(***************************************************************************)
\* what a request finds at <dest>.meta.json: nothing, a file that cannot be
\* read, bytes that are not JSON (empty or cut), a JSON object with a number
\* where one of the two strings belongs, or what writeCargoCacheMeta wrote
SidecarFiles == {"missing", "unreadable", "cut", "mistyped_etag", "mistyped_lm", "good"}

NoValidators == [etag |-> 0, lm |-> 0]

\* json.Unmarshal(data, &meta): bytes that are not JSON are rejected before
\* anything is stored; a value of the wrong type is skipped, the other
\* fields are stored, and the type error is returned at the end
Unmarshal(file, e, l) ==
    CASE file = "cut" -> [meta |-> NoValidators, err |-> TRUE]
      [] file = "mistyped_etag" -> [meta |-> [etag |-> 0, lm |-> l], err |-> TRUE]
      [] file = "mistyped_lm" -> [meta |-> [etag |-> e, lm |-> 0], err |-> TRUE]
      [] OTHER -> [meta |-> [etag |-> e, lm |-> l], err |-> FALSE]

readCargoCacheMeta(file, e, l) ==
    IF file \in {"missing", "unreadable"} THEN [meta |-> NoValidators, err |-> TRUE]
    ELSE Unmarshal(file, e, l)

\* CargoIndex around DownloadFileConditional: the validators sent, and the
\* response and sidecar left for a given result of the fetch
CargoIndexSidecar(c) ==
    LET v == IF c.cacheExists THEN readCargoCacheMeta(c.file, c.etag, c.lm).meta
             ELSE NoValidators
        label == CondLabel(c.err, c.cacheExists, c.notMod)
        attempted == ~c.err /\ MetaWriteNeeded(c.nE, c.nL)
        m == MergeValidators(v, c.nE, c.nL)
    IN [hdr |-> CondHeaders(v.etag, v.lm),
        xcs |-> <<label>>,
        status |-> IF c.err /\ ~c.cacheExists THEN c.code ELSE 200,
        body |-> IF c.err /\ ~c.cacheExists THEN "check_logs" ELSE "file",
        attempted |-> attempted,
        sidecar |-> IF attempted /\ c.writeOk THEN m ELSE NoValidators]

\* the results DownloadFileConditional can hand back
FetchResults ==
    {f \in [err : BOOLEAN, notMod : BOOLEAN, code : {200, 304, 404, 502},
            nE : 0..1, nL : 0..1] :
        /\ f.err <=> f.code \in {404, 502}
        /\ f.notMod <=> f.code = 304
        /\ f.code = 502 => f.nE = 0 /\ f.nL = 0}

SidecarCalls ==
    {[op |-> "sidecar", file |-> sf, etag |-> e, lm |-> l, cacheExists |-> x,
      writeOk |-> w, err |-> f.err, notMod |-> f.notMod, code |-> f.code,
      nE |-> f.nE, nL |-> f.nL] :
        sf \in SidecarFiles, e \in 1..2, l \in 1..2, x \in BOOLEAN, w \in BOOLEAN,
        f \in FetchResults}

HandleSidecar ==
    /\ Answering("sidecar")
    /\ Return(CargoIndexSidecar(call))

InitSidecar ==
    /\ call \in SidecarCalls
    /\ result = NoResult
    /\ InitCond
    /\ endpoint = "cargo_index"
    /\ PlainIdle
    /\ GenIdle

NextSidecar == HandleSidecar

SpecSidecar == InitSidecar /\ [][NextSidecar]_vars

\* the part of a response the client sees
Seen(r) == [status |-> r.status, body |-> r.body, xcs |-> r.xcs]

\* C26: the sidecar never decides a request: with a sidecar that is missing,
\* malformed or unreadable the upstream GET carries no conditional header,
\* and a sidecar write that fails leaves status, body and X-Cache-Status as
\* they are when the write succeeds.
SidecarNeverMatters ==
    (call.op = "sidecar" /\ result # NoResult) =>
        /\ call.file # "good" => result.hdr = [inm |-> 0, ims |-> 0]
        /\ (result.attempted /\ ~call.writeOk) =>
              Seen(result) = Seen(CargoIndexSidecar([call EXCEPT !.writeOk = TRUE]))

(***************************************************************************)
(* Claims about the methods of the Cargo API pass-through.                 *)
(***************************************************************************)
ApiAnswered == result # NoResult /\ call.op = "cargo_api"

\* upstream requests the handler issued
ApiRequests == IF result.request.sent THEN 1 ELSE 0

InFlight(p) == proc[p].pc \in {"copy", "finish", "rename", "defer"}

\* C28: no two fetches in flight use the same temporary path, so that none
\* writes into, renames or removes the temporary file of another.
TempOwnership ==
    \A p, q \in Procs :
        (p # q /\ InFlight(p) /\ InFlight(q)) =>
            /\ proc[p].name # proc[q].name
            /\ proc[p].fd # proc[q].fd

(***************************************************************************)
(* Claims about the publication of config.json.                            *)
(***************************************************************************)
\* the documents the handler generates
CompleteConfigs == {ConfigJSON(sc, h, "k") : sc \in Schemes, h \in Hosts}

\* C29: config.json is published whole: a request that finds the file finds
\* a complete generated document, and the body of every HIT is one.
ConfigPublishedWhole ==
    [][\A p \in Procs :
        /\ (cfgProc[p].pc \in {"idle", "done"} /\ cfgProc'[p].pc = "hit") =>
              cfgFile.data \in CompleteConfigs
        /\ (cfgProc[p].pc = "hit" /\ cfgProc'[p].pc = "done") =>
              cfgProc'[p].body \in CompleteConfigs
      ]_vars

(***************************************************************************)
(* Claims about the cache paths of the Cargo index.                        *)
(***************************************************************************)
\* the cache entry among the files of an index fetch (the other file is its
\* sidecar)
CargoIndexDest(r) == CHOOSE f \in r.files : WithSuffix(f, ".meta.json") \in r.files

CargoIndexMeta(r) == WithSuffix(CargoIndexDest(r), ".meta.json")

\* C30: two index requests under one registry key that address different
\* upstream URLs (cleaned path or query differ) have different cache
\* entries, and the cache entry of an index request is neither the sidecar
\* of another entry nor the generated config.json.
CargoIndexKeysDistinct ==
    (/\ result # NoResult /\ call.op = "paths" /\ call.adapter = "cargo_index"
     /\ result.decision = "fetch") =>
        /\ CargoIndexDest(result) #
               CacheRoot("cargo", call.key) \o <<"index", "config.json">>
        /\ \A w \in Wildcards("cargo_index"), q \in Queries :
              LET other == CargoIndexPaths(call.key, w, q)
              IN (/\ other.decision = "fetch"
                  /\ <<other.url, other.query>> # <<result.url, result.query>>) =>
                     /\ CargoIndexDest(other) # CargoIndexDest(result)
                     /\ CargoIndexMeta(other) # CargoIndexDest(result)

(***************************************************************************)
(* The cache key of an npm packument: from the wildcard, the query and the *)
(* client's Accept to the cache file and the upstream request.             *)
(***************************************************************************)
\* segments in the wildcard of a packument request
MaxNameSegs == 2

NoKey == [decision |-> "none", file |-> <<>>, url |-> <<>>, query |-> "", accept |-> ""]

handleNpmMetadataKey(key, rawPath, q, accept) ==
    LET packageName == CleanRel(PathUnescape(rawPath))
        a == npmAcceptHeader(accept)
        filenameBase == "packument." \o a.cacheKey \o
                            (IF q # "" THEN "." \o QueryHash(q) ELSE "")
        cacheDir == CacheRoot("npm", key) \o <<"metadata">> \o packageName
    IN IF packageName = EmptyStr THEN NoKey
       ELSE [decision |-> "fetch",
             file |-> cacheDir \o <<filenameBase \o ".json">>,
             url |-> Plain(BasePath) \o npmEncodePackageName(packageName),
             query |-> q,
             accept |-> a.upstreamAccept]

\* NpmProxy for a request that is neither a search nor a tarball
NpmMetadataKey(key, wildcard, q, accept) ==
    LET rawPath == TrimTrailingSlash(TrimLeadingSlash(wildcard))
        cleaned == CleanRel(rawPath)
    IN IF rawPath = EmptyStr \/ cleaned = EmptyStr THEN NoKey
       ELSE IF isNpmSearchPath(cleaned) \/ isNpmTarballPath(cleaned) THEN NoKey
       ELSE handleNpmMetadataKey(key, cleaned, q, accept)

KeyWildcards == {w \in SegPaths("npm") : Len(w) <= MaxNameSegs}

KeyCalls ==
    [op : {"packument_key"}, key : RegistryKeys, wildcard : KeyWildcards,
     query : Queries, accept : AcceptValues]

MapKey ==
    /\ Answering("packument_key")
    /\ Return(NpmMetadataKey(call.key, call.wildcard, call.query, call.accept))

InitKeys ==
    /\ call \in KeyCalls
    /\ result = NoResult
    /\ InitCond
    /\ endpoint = "npm_packument"
    /\ PlainIdle
    /\ GenIdle

NextKeys == MapKey

SpecKeys == InitKeys /\ [][NextKeys]_vars

\* the upstream request of a packument fetch
KeyRequest(r) == <<r.url, r.query, r.accept>>

\* C31: two packument requests under one registry key that map to the same
\* cache file send the same upstream request (URL, query and Accept), the
\* hashes being injective.
PackumentKeysSound ==
    (result # NoResult /\ call.op = "packument_key" /\ result.decision = "fetch") =>
        \A w \in KeyWildcards, q \in Queries, a \in AcceptValues :
            LET other == NpmMetadataKey(call.key, w, q, a)
            IN (other.decision = "fetch" /\ other.file = result.file) =>
                   KeyRequest(other) = KeyRequest(result)

\* a request whose Accept names */* shares its file with a request without
\* Accept that spells the same package with another wildcard
PackumentKeysWitness ==
    /\ result # NoResult /\ call.op = "packument_key" /\ result.decision = "fetch"
    /\ call.accept = "application/json, */*"
    /\ call.wildcard = <<"a">>
    /\ call.query = "q=1"
    /\ result.accept = "application/vnd.npm.install-v1+json"
    /\ \E w \in KeyWildcards :
          /\ w # call.wildcard
          /\ NpmMetadataKey(call.key, w, "q=1", "").file = result.file

(***************************************************************************)
(* Claims about the validators kept in the sidecar.                        *)
(***************************************************************************)
\* invocation p, back from a fetch that ended in an upstream 200, labels its
\* response and deals with the sidecar in this step
HandlesMiss(p) ==
    /\ proc[p].pc = "handle" /\ proc'[p].pc = "serve"
    /\ proc[p].code = 200 /\ ~proc[p].err

\* C32: after a request that ended in an upstream 200 the sidecar holds the
\* validators of that response and no others: a validator the response did
\* not carry is not kept from an earlier version.  (A sidecar write that
\* fails is not held against the claim.)
SidecarHoldsReturnedValidators ==
    [][\A p \in Procs :
        HandlesMiss(p) =>
            IF proc[p].nE = 0 /\ proc[p].nL = 0
            THEN meta'.etag = 0 /\ meta'.lm = 0
            ELSE \/ meta' = meta
                 \/ meta'.etag = proc[p].nE /\ meta'.lm = proc[p].nL
      ]_vars

(***************************************************************************)
(* Claims about the labels of the conditional endpoints.                   *)
(***************************************************************************)
\* C33: a response labelled HIT has a cache entry to serve: from the label
\* to the answer there is a file at the cache path, and the answer is made
\* from it.
HitHasEntry ==
    \A p \in Procs :
        proc[p].xcs = <<"HIT">> =>
            /\ dest # NoIno
            /\ proc[p].cacheExists
            /\ proc[p].pc = "done" => proc[p].body.kind \in {"file", "rewritten", "metadata_error"}

\* the second request revalidated the entry the first one had stored next to
\* the sidecar found at the start, and was served from it as HIT
HitHasEntryWitness ==
    \E p \in Procs :
        /\ proc[p].pc = "done" /\ proc[p].xcs = <<"HIT">>
        /\ proc[p].code = 304 /\ proc[p].notMod /\ proc[p].cacheExists
        /\ proc[p].status = 200 /\ proc[p].body.kind = "file"
        /\ proc[p].body.data \in CompleteBodies
        /\ reqs = 2

\* a 2xx status
Is2xx(status) == status \in 200..299

\* C34: on the conditional endpoints a response is labelled ERROR exactly
\* when its status is not 2xx, and a response labelled HIT, MISS or STALE has
\* status 200, whatever the upstream status and the cached body.
LabelMatchesStatus ==
    \A p \in Procs :
        proc[p].pc = "done" =>
            /\ proc[p].xcs = <<"ERROR">> <=> ~Is2xx(proc[p].status)
            /\ proc[p].xcs \in {<<"HIT">>, <<"MISS">>, <<"STALE">>} => proc[p].status = 200

====
